---------------------------- MODULE Spec2Model ----------------------------
(***************************************************************************)
(* A model of the reconciliation engine of tiq-assistant: event matching,  *)
(* session hour suggestions, the timesheet entry store, the Outlook        *)
(* meeting cache, the work calendar and entry aggregation.                 *)
(*                                                                         *)
(* Texts are sequences of one-character strings, so that upper(), lower(), *)
(* the two regular expressions and substring containment are computed as   *)
(* the code computes them.  An Optional value is a sequence of length at   *)
(* most one: None is << >> and a present value v is << v >>.               *)
(***************************************************************************)
EXTENDS Integers, Sequences, FiniteSets, TLC

VARIABLES
    projects,      \* rows of table projects, in rowid order
    event,         \* the CalendarEvent handed to match_event
    result,        \* the MatchResult match_event returned
    mpc,           \* position of the matching run: "idle" or "matched"
    entries,       \* rows of table timesheet_entries, in insertion order
    meetings,      \* rows of table outlook_meetings, in insertion order
    config,        \* the ScheduleConfig row
    nextId,        \* number of ids generate_id() has handed out
    clock,         \* datetime.now(), counted in operations
    lastOp,        \* the store operation that ran last, with its argument
    holidays,      \* HolidayService._holidays
    holiday_map,   \* HolidayService._holiday_map
    loaded,        \* the list the HolidayService was constructed with
    holiday_rows,  \* rows of table holidays, in rowid order
    holiday_seq,   \* the AUTOINCREMENT counter of table holidays
    recent,        \* per date, the name and type of the save that ran last
    sheet,         \* the rows of the Excel file last handed to OutlookParser
    parse_out,     \* what OutlookParser.parse returned for them, and its warnings
    export_files,  \* the files of ~/Documents/TIQ Timesheets, by which export wrote them
    download,      \* the rows of the workbook the dashboard last offered for download
    _scheduler,    \* SchedulerManager._scheduler: absent, or its running flag and jobs
    _config,       \* SchedulerManager._config
    sched_clock,   \* the time of day, as a position in TimePoints
    due,           \* the sessions whose popup signal the last time step emitted
    user_settings, \* the UserSettings row
    events,        \* the batch last handed to generate_entries_from_events
    generated,     \* what generate_entries_from_events returned for it
    X,             \* the list handed to the entry-producing operation
    out,           \* what the operation returned (or that it raised)
    out2,          \* what aggregate_entries returned for out
    apc            \* position of the entry-producing run

vars == << projects, event, result, mpc, entries, meetings, config, nextId,
           clock, lastOp, holidays, holiday_map, loaded, holiday_rows,
           holiday_seq, recent, sheet, parse_out, export_files, download,
           _scheduler, _config, sched_clock, due, user_settings, events, generated, X, out, out2,
           apc >>

matchVars == << projects, event, result, mpc >>
storeVars == << entries, meetings, config, nextId, clock, lastOp >>
calVars   == << holidays, holiday_map, loaded >>
hdbVars   == << holiday_rows, holiday_seq, recent >>
parseVars == << sheet, parse_out >>
fileVars  == << export_files, download >>
schedVars == << _scheduler, _config, sched_clock, due >>
shellVars == << parseVars, fileVars, schedVars >>
aggVars   == << user_settings, events, generated, X, out, out2, apc >>

\* what the operations of one component leave alone
notMatch == << storeVars, calVars, hdbVars, aggVars, shellVars >>
notStore == << matchVars, calVars, hdbVars, aggVars, shellVars >>
notCal   == << matchVars, storeVars, hdbVars, aggVars, shellVars >>
notHdb   == << matchVars, storeVars, calVars, aggVars, shellVars >>
notAgg   == << matchVars, storeVars, calVars, hdbVars, shellVars >>
notShell == << matchVars, storeVars, calVars, hdbVars, aggVars >>

None == << >>
Some(v) == << v >>

Max(a, b) == IF a >= b THEN a ELSE b
Min(a, b) == IF a <= b THEN a ELSE b

RECURSIVE SumSeq(_)
SumSeq(s) == IF s = << >> THEN 0 ELSE Head(s) + SumSeq(Tail(s))

RECURSIVE Flatten(_)
Flatten(ss) == IF ss = << >> THEN << >> ELSE Head(ss) \o Flatten(Tail(ss))

(***************************************************************************)
(* Characters and texts                                                    *)
(***************************************************************************)
LowerLetters == << "a","b","c","d","e","f","g","h","i","j","k","l","m",
                   "n","o","p","q","r","s","t","u","v","w","x","y","z" >>
UpperLetters == << "A","B","C","D","E","F","G","H","I","J","K","L","M",
                   "N","O","P","Q","R","S","T","U","V","W","X","Y","Z" >>
Digits == { "0","1","2","3","4","5","6","7","8","9" }

IsUpper(c) == \E i \in 1..26 : UpperLetters[i] = c
IsLower(c) == \E i \in 1..26 : LowerLetters[i] = c
IsDigit(c) == c \in Digits
\* \w of the re module, for the characters the model uses
IsWord(c) == IsUpper(c) \/ IsLower(c) \/ IsDigit(c) \/ c = "_"

ToUpper(c) == IF IsLower(c)
              THEN UpperLetters[CHOOSE i \in 1..26 : LowerLetters[i] = c]
              ELSE c
ToLower(c) == IF IsUpper(c)
              THEN LowerLetters[CHOOSE i \in 1..26 : UpperLetters[i] = c]
              ELSE c

\* str.upper() and str.lower()
Upper(t) == [i \in 1..Len(t) |-> ToUpper(t[i])]
Lower(t) == [i \in 1..Len(t) |-> ToLower(t[i])]

\* needle in hay (the empty text is contained in every text)
Contains(needle, hay) ==
    \E i \in 0..(Len(hay) - Len(needle)) :
        \A j \in 1..Len(needle) : hay[i + j] = needle[j]

\* number of consecutive characters from position i on that satisfy the class
RECURSIVE UpperRun(_, _)
UpperRun(t, i) == IF i <= Len(t) /\ IsUpper(t[i]) THEN 1 + UpperRun(t, i + 1) ELSE 0
RECURSIVE DigitRun(_, _)
DigitRun(t, i) == IF i <= Len(t) /\ IsDigit(t[i]) THEN 1 + DigitRun(t, i + 1) ELSE 0

MinKeyLetters == 2
MaxKeyLetters == 10
MaxKeyDigits == 6

(***************************************************************************)
(* JIRA_KEY_PATTERN = \b([A-Z]{2,10}-\d{1,6})\b matched at position i:     *)
(* the index of the last character of the match, or 0 when there is none.  *)
(* Between the two word boundaries the letter run and the digit run must   *)
(* be taken whole, so backtracking never finds a shorter match.            *)
(***************************************************************************)
KeyMatchEnd(t, i) ==
    LET L == UpperRun(t, i)
        D == DigitRun(t, i + L + 1)
        after == i + L + 1 + D
    IN  IF /\ (i = 1 \/ ~IsWord(t[i - 1]))
           /\ L >= MinKeyLetters /\ L <= MaxKeyLetters
           /\ i + L <= Len(t) /\ t[i + L] = "-"
           /\ D >= 1 /\ D <= MaxKeyDigits
           /\ (after > Len(t) \/ ~IsWord(t[after]))
        THEN after - 1
        ELSE 0

\* JIRA_KEY_PATTERN.findall(t) from position i on
RECURSIVE FindKeys(_, _)
FindKeys(t, i) ==
    IF i > Len(t) THEN << >>
    ELSE LET e == KeyMatchEnd(t, i)
         IN  IF e > 0 THEN << SubSeq(t, i, e) >> \o FindKeys(t, e + 1)
                      ELSE FindKeys(t, i + 1)

BrowsePrefix == << "/","b","r","o","w","s","e","/" >>

(***************************************************************************)
(* A pattern <prefix>([A-Z]{2,10}-\d{1,6}) matched at position i: the     *)
(* index of the last character of the match, or 0.  There is no word       *)
(* boundary: the digits are taken greedily, at most six of them.           *)
(***************************************************************************)
UrlMatchEnd(prefix, t, i) ==
    LET k == i + Len(prefix)
        L == UpperRun(t, k)
        D == Min(DigitRun(t, k + L + 1), MaxKeyDigits)
    IN  IF /\ k - 1 <= Len(t)
           /\ SubSeq(t, i, k - 1) = prefix
           /\ L >= MinKeyLetters /\ L <= MaxKeyLetters
           /\ k + L <= Len(t) /\ t[k + L] = "-"
           /\ D >= 1
        THEN k + L + D
        ELSE 0

\* findall(t) of such a pattern from position i on: the captured groups
RECURSIVE FindUrlKeys(_, _, _)
FindUrlKeys(prefix, t, i) ==
    IF i > Len(t) THEN << >>
    ELSE LET e == UrlMatchEnd(prefix, t, i)
         IN  IF e > 0
             THEN << SubSeq(t, i + Len(prefix), e) >> \o FindUrlKeys(prefix, t, e + 1)
             ELSE FindUrlKeys(prefix, t, i + 1)

_extract_jira_keys(text) ==
    IF text = << >> THEN << >> ELSE FindKeys(Upper(text), 1)

\* JIRA_URL_PATTERN.findall(text.upper()): the pattern's /browse/ is in lower
\* case and is matched as written
_extract_jira_keys_from_urls(text) ==
    IF text = << >> THEN << >> ELSE FindUrlKeys(BrowsePrefix, Upper(text), 1)

(***************************************************************************)
(* Rationals <<numerator, denominator>> stand for the floats of the code   *)
(* (confidence and keyword score); denominators are positive.              *)
(***************************************************************************)
RatLess(a, b) == a[1] * b[2] < b[1] * a[2]
RatEq(a, b)   == a[1] * b[2] = b[1] * a[2]
RatAdd(a, b)  == << a[1] * b[2] + b[1] * a[2], a[2] * b[2] >>
RatMin(a, b)  == IF RatLess(b, a) THEN b ELSE a

KeywordCap   == << 8, 10 >>    \* 0.8
KeywordBonus == << 3, 10 >>    \* 0.3
Zero         == << 0, 1 >>     \* 0.0
One          == << 1, 1 >>     \* 1.0
DescConf     == << 9, 10 >>    \* 0.9

(***************************************************************************)
(* The projects table                                                      *)
(***************************************************************************)
\* collation order of the project names the model uses (ORDER BY name)
NameOrder == << "", "Alpha", "Beta", "Gamma", "Omega" >>
NameRank(n) == CHOOSE i \in 1..Len(NameOrder) : NameOrder[i] = n

\* Project.normalize_jira_key: blank becomes None, otherwise upper-cased
\* (the texts of the model carry no surrounding blanks to strip)
normalize_jira_key(v) ==
    IF v = None \/ v[1] = << >> THEN None ELSE Some(Upper(v[1]))

\* a lookup by key that does not look at is_active
FindProjectAnyState(table, jira_key) ==
    LET key == Upper(jira_key)
        hits == { i \in 1..Len(table) : table[i].jira_key = Some(key) }
    IN  IF hits = {} THEN None
        ELSE Some(table[CHOOSE i \in hits : \A j \in hits : i <= j])

\* SELECT * FROM projects WHERE jira_key = ? AND is_active = 1, fetchone():
\* the first such row in rowid order, which is how the index on jira_key
\* hands out rows of equal key
find_project_by_jira_key(table, jira_key) ==
    LET key == Upper(jira_key)
        hits == { i \in 1..Len(table) :
                    table[i].jira_key = Some(key) /\ table[i].is_active }
    IN  IF hits = {} THEN None
        ELSE Some(table[CHOOSE i \in hits : \A j \in hits : i <= j])

\* insert row p into a list sorted by name, after the rows of equal name
RECURSIVE InsertByName(_, _)
InsertByName(p, s) ==
    IF s = << >> THEN << p >>
    ELSE IF NameRank(p.name) < NameRank(Head(s).name)
         THEN << p >> \o s
         ELSE << Head(s) >> \o InsertByName(p, Tail(s))

RECURSIVE SortByName(_)
SortByName(s) ==
    IF s = << >> THEN << >>
    ELSE InsertByName(s[Len(s)], SortByName(SubSeq(s, 1, Len(s) - 1)))

\* get_projects: SELECT * FROM projects [WHERE is_active = 1] ORDER BY name
get_projects(table, active_only) ==
    SortByName(SelectSeq(table, LAMBDA p : (~active_only) \/ p.is_active))

get_project(table, project_id) ==
    LET hits == { i \in 1..Len(table) : table[i].id = project_id }
    IN  IF hits = {} THEN None ELSE Some(table[CHOOSE i \in hits : TRUE])

(***************************************************************************)
(* MatchingService                                                         *)
(***************************************************************************)
MatchResult(project, confidence, match_source, matched_text) ==
    [ project_id        |-> Some(project.id),
      project_name      |-> Some(project.name),
      ticket_numeric_id |-> Some(project.ticket_number),
      ticket_jira_key   |-> project.jira_key,
      confidence        |-> confidence,
      match_source      |-> match_source,
      matched_text      |-> Some(matched_text) ]

\* MatchResult(confidence=0.0, match_source="none")
NoMatch ==
    [ project_id        |-> None,
      project_name      |-> None,
      ticket_numeric_id |-> None,
      ticket_jira_key   |-> None,
      confidence        |-> Zero,
      match_source      |-> "none",
      matched_text      |-> None ]

\* the (project, keyword) pairs in the order the two nested loops visit them
KeywordPairs(table) ==
    LET ps == get_projects(table, TRUE)
    IN  Flatten([ i \in 1..Len(ps) |->
                    [ k \in 1..Len(ps[i].keywords) |->
                        [ project |-> ps[i], keyword |-> ps[i].keywords[k] ] ] ])

\* score = len(keyword) / len(text)
KeywordScore(keyword, text) == << Len(keyword), Len(text) >>

\* a loop that lets a later pair of equal score replace the best one
BeatsBestOrTies(score, best_score) ==
    RatLess(best_score, score) \/ (RatEq(best_score, score) /\ score[1] > 0)

\* if score > best_score
BeatsBest(score, best_score) == RatLess(best_score, score)

\* a confidence without the cap: score + 0.3
KeywordConfidenceUncapped(score) == RatAdd(score, KeywordBonus)

\* confidence = min(0.8, score + 0.3)
KeywordConfidence(score) == RatMin(KeywordCap, RatAdd(score, KeywordBonus))

\* the loop body of _match_by_keywords from pair n on, with the best so far
RECURSIVE KeywordLoop(_, _, _, _, _)
KeywordLoop(pairs, n, text, best_score, best_match) ==
    IF n > Len(pairs) THEN best_match
    ELSE LET pr == pairs[n]
             score == KeywordScore(pr.keyword, text)
         IN  IF Contains(Lower(pr.keyword), Lower(text)) /\ BeatsBest(score, best_score)
             THEN KeywordLoop(pairs, n + 1, text, score,
                      Some(MatchResult(pr.project, KeywordConfidence(score),
                                       "keyword", pr.keyword)))
             ELSE KeywordLoop(pairs, n + 1, text, best_score, best_match)

_match_by_keywords(table, text) ==
    IF text = << >> THEN None
    ELSE KeywordLoop(KeywordPairs(table), 1, text, Zero, None)

\* the first key of the list that find_project_by_jira_key resolves and that
\* is not in skip: << >> or << <<project, key>> >>
RECURSIVE FirstResolved(_, _, _)
FirstResolved(table, keys, skip) ==
    IF keys = << >> THEN None
    ELSE LET key == Head(keys)
             project == find_project_by_jira_key(table, key)
         IN  IF (\A i \in 1..Len(skip) : skip[i] # key) /\ project # None
             THEN Some(<< project[1], key >>)
             ELSE FirstResolved(table, Tail(keys), skip)

\* match_source of a hit of strategy 1
SubjectSource == "subject"

match_event(table, ev) ==
    LET jira_keys == _extract_jira_keys(ev.subject)
        s1 == FirstResolved(table, jira_keys, << >>)
        hasDesc == ev.description # None /\ ev.description[1] # << >>
        url_keys == IF hasDesc THEN _extract_jira_keys_from_urls(ev.description[1])
                               ELSE << >>
        s2 == FirstResolved(table, url_keys, << >>)
        desc_keys == IF hasDesc THEN _extract_jira_keys(ev.description[1]) ELSE << >>
        s3 == FirstResolved(table, desc_keys, jira_keys)
        kw == _match_by_keywords(table, ev.subject)
    IN  IF s1 # None THEN MatchResult(s1[1][1], One, SubjectSource, s1[1][2])
        ELSE IF s2 # None THEN MatchResult(s2[1][1], One, "description_url", s2[1][2])
        ELSE IF s3 # None THEN MatchResult(s3[1][1], DescConf, "description", s3[1][2])
        ELSE IF kw # None /\ RatLess(Zero, kw[1].confidence) THEN kw[1]
        ELSE NoMatch

(***************************************************************************)
(* Inputs of the matching runs: a project table and an event whose subject *)
(* and description are concatenations of a few pieces.                     *)
(***************************************************************************)
MaxSubjectPieces == 2
MaxDescPieces == 3

kAB1  == << "A","B","-","1" >>
kab1  == << "a","b","-","1" >>
kCD2  == << "C","D","-","2" >>
wSync == << "s","y","n","c" >>
wSYNC == << "S","Y","N","C" >>
wSy   == << "s","y" >>
wNc   == << "n","c" >>
Blank == << " " >>

SubjectPieces == { kab1 \o Blank, kCD2 \o Blank, wSync }
DescPieces    == { BrowsePrefix, kAB1, kCD2, Blank }

\* the concatenations of at most n pieces
RECURSIVE Texts(_, _)
Texts(pieces, n) ==
    IF n = 0 THEN { << >> }
    ELSE LET shorter == Texts(pieces, n - 1)
         IN  shorter \cup { t \o p : t \in shorter, p \in pieces }

Subjects == Texts(SubjectPieces, MaxSubjectPieces)
Descriptions == { None } \cup { Some(t) : t \in Texts(DescPieces, MaxDescPieces) }

Project(id, name, ticket, key, kws, active) ==
    [ id |-> id, name |-> name, ticket_number |-> ticket,
      jira_key |-> normalize_jira_key(key), keywords |-> kws, is_active |-> active ]

ProjectTables ==
    { << >>,
      << Project("p1", "Alpha", "2019135", Some(kAB1), << wSy >>, TRUE),
         Project("p2", "Beta", "2019136", Some(kCD2), << wSYNC >>, TRUE) >>,
      << Project("p2", "Beta", "2019136", Some(kCD2), << wNc, wSync >>, TRUE),
         Project("p1", "Alpha", "2019135", Some(kab1), << wSy, << >> >>, TRUE) >>,
      << Project("p1", "Alpha", "2019135", Some(kAB1), << wSync >>, FALSE),
         Project("p2", "Beta", "2019136", None, << wSy, wNc >>, TRUE),
         Project("p3", "Gamma", "2019137", Some(kAB1), << wNc >>, TRUE) >>,
      << Project("p3", "Gamma", "2019137", None, << << >> >>, TRUE) >> }

NoEvent == [ subject |-> << >>, description |-> None ]

\* result = matching_service.match_event(event)
MatchEvent ==
    /\ mpc = "idle"
    /\ result' = match_event(projects, event)
    /\ mpc' = "matched"
    /\ UNCHANGED << projects, event, notMatch >>

(***************************************************************************)
(* TimesheetEntry and the timesheet_entries table                          *)
(***************************************************************************)
MinHours == 1
MaxHours == 24

\* TimesheetEntry.validate_hours: the constructor raises outside [1, 24]
validate_hours(v) == v >= MinHours /\ v <= MaxHours

DefaultConsultant == "FMANZOOR"
DefaultLocation == "ANKARA"

\* TimesheetEntry(...) with the defaults of the model class for what is not given
TimesheetEntry(id, entry_date, hours, ticket_number, project_name, activity_code, description, status, source) ==
    [ id |-> id, consultant_id |-> DefaultConsultant, entry_date |-> entry_date,
      hours |-> hours, ticket_number |-> ticket_number,
      project_name |-> project_name, activity_code |-> activity_code,
      location |-> DefaultLocation, description |-> description,
      status |-> status, source |-> source,
      source_event_id |-> None, source_jira_key |-> None, exported_at |-> None ]

\* index of the row with this id, or 0
RowOf(table, id) ==
    IF \E i \in 1..Len(table) : table[i].id = id
    THEN CHOOSE i \in 1..Len(table) : table[i].id = id
    ELSE 0

\* save_entry: INSERT OR REPLACE INTO timesheet_entries, every column taken
\* from the object handed in
save_entry(table, entry) ==
    LET i == RowOf(table, entry.id)
    IN  IF i = 0 THEN Append(table, entry)
        ELSE [ table EXCEPT ![i] = entry ]

get_entry(table, entry_id) ==
    LET i == RowOf(table, entry_id)
    IN  IF i = 0 THEN None ELSE Some(table[i])

\* get_entries(start_date = d, end_date = d): the rows of that date
get_entries(table, d) == SelectSeq(table, LAMBDA e : e.entry_date = d)

delete_entry(table, entry_id) == SelectSeq(table, LAMBDA e : e.id # entry_id)

\* the status approve_entries writes
ApprovedStatus(entry) == "approved"

\* approve_entries for one id: load, set the status, save
approve_entry(table, entry_id) ==
    LET got == get_entry(table, entry_id)
    IN  IF got = None THEN table
        ELSE save_entry(table, [ got[1] EXCEPT !.status = ApprovedStatus(got[1]) ])

\* UPDATE timesheet_entries SET status = 'exported', exported_at = now WHERE id = ?
mark_entry_exported(table, entry_id, now) ==
    [ i \in 1..Len(table) |->
        IF table[i].id = entry_id
        THEN [ table[i] EXCEPT !.status = "exported", !.exported_at = Some(now) ]
        ELSE table[i] ]

\* a list operation applied to the ids of the list, one after the other
RECURSIVE approve_entries(_, _)
approve_entries(table, entry_ids) ==
    IF entry_ids = << >> THEN table
    ELSE approve_entries(approve_entry(table, Head(entry_ids)), Tail(entry_ids))

RECURSIVE mark_entries_exported(_, _, _)
mark_entries_exported(table, entry_ids, now) ==
    IF entry_ids = << >> THEN table
    ELSE mark_entries_exported(mark_entry_exported(table, Head(entry_ids), now),
                               Tail(entry_ids), now)

(***************************************************************************)
(* Rounding                                                                *)
(***************************************************************************)
\* Python's round(n / d) for n >= 0, d > 0: to the nearest integer, a tie to
\* the even one
RoundHalfEven(n, d) ==
    LET q == n \div d
        r == n % d
    IN  IF 2 * r < d THEN q
        ELSE IF 2 * r > d THEN q + 1
        ELSE IF q % 2 = 0 THEN q ELSE q + 1

\* OutlookMeeting.duration_hours, in hundredths of an hour:
\* Decimal(str(round(seconds / 3600, 2))) for a duration of whole minutes
\* (minutes * 100 / 60 is never half-way between two integers)
duration_hours(m) == RoundHalfEven((m.end_minute - m.start_minute) * 100, 60)

\* _round_hours(decimal_hours) = max(1, round(float(decimal_hours)))
_round_hours(hundredths) == Max(1, RoundHalfEven(hundredths, 100))

(***************************************************************************)
(* ScheduleConfig and HourSuggestionService                                *)
(***************************************************************************)
DigitSeq == << "0","1","2","3","4","5","6","7","8","9" >>
DigitVal(c) == (CHOOSE i \in 1..10 : DigitSeq[i] = c) - 1

\* str.split(":")
RECURSIVE SplitColon(_, _)
SplitColon(s, cur) ==
    IF s = << >> THEN << cur >>
    ELSE IF Head(s) = ":" THEN << cur >> \o SplitColon(Tail(s), << >>)
         ELSE SplitColon(Tail(s), Append(cur, Head(s)))

\* int(part) of a text of decimal digits; -1 stands for the ValueError that
\* int() raises for the other texts of the model
RECURSIVE IntOf(_, _)
IntOf(part, acc) ==
    IF part = << >> THEN acc
    ELSE IF ~IsDigit(Head(part)) THEN -1
         ELSE IntOf(Tail(part), 10 * acc + DigitVal(Head(part)))

\* _parse_time: time(int(parts[0]), int(parts[1])), as minutes since midnight
_parse_time(time_str) ==
    LET parts == SplitColon(time_str, << >>)
        h == IF parts[1] = << >> THEN -1 ELSE IntOf(parts[1], 0)
        m == IF Len(parts) < 2 \/ parts[2] = << >> THEN -1 ELSE IntOf(parts[2], 0)
    IN  IF h = -1 THEN [ kind |-> "ValueError" ]
        ELSE IF Len(parts) < 2 THEN [ kind |-> "IndexError" ]
        ELSE IF m = -1 \/ h > 23 \/ m > 59 THEN [ kind |-> "ValueError" ]
        ELSE [ kind |-> "ok", minute |-> 60 * h + m ]

t0930 == << "0","9",":","3","0" >>
t1215 == << "1","2",":","1","5" >>
t1330 == << "1","3",":","3","0" >>
t1815 == << "1","8",":","1","5" >>

\* ScheduleConfig() with the defaults of the model class
DefaultConfig ==
    [ morning_popup_enabled |-> TRUE, morning_popup_time |-> t1215,
      morning_hours_target |-> 3,
      afternoon_popup_enabled |-> TRUE, afternoon_popup_time |-> t1815,
      afternoon_hours_target |-> 5,
      workday_start |-> t0930, lunch_start |-> t1215,
      lunch_end |-> t1330, workday_end |-> t1815 ]

\* SELECT * FROM outlook_meetings WHERE start_datetime within the day
\* ORDER BY start_datetime (rows of equal start in rowid order)
RECURSIVE InsertByStart(_, _)
InsertByStart(m, s) ==
    IF s = << >> THEN << m >>
    ELSE IF m.start_minute < Head(s).start_minute
         THEN << m >> \o s
         ELSE << Head(s) >> \o InsertByStart(m, Tail(s))

RECURSIVE SortByStart(_)
SortByStart(s) ==
    IF s = << >> THEN << >>
    ELSE InsertByStart(s[Len(s)], SortByStart(SubSeq(s, 1, Len(s) - 1)))

get_meetings_for_date(table, d) ==
    SortByStart(SelectSeq(table, LAMBDA m : m.date = d))

\* _filter_entries_by_session: every entry of the date, whatever the session
_filter_entries_by_session(es, session) == es

\* a window that is closed at its end
InSessionClosed(m, session_start, session_end) ==
    session_start <= m.start_minute /\ m.start_minute <= session_end

\* session_start <= meeting_time < session_end
InSession(m, session_start, session_end) ==
    session_start <= m.start_minute /\ m.start_minute < session_end

_filter_meetings_by_session(ms, session_start, session_end) ==
    SelectSeq(ms, LAMBDA m : InSession(m, session_start, session_end))

\* remaining_hours = max(0, target_hours - logged_hours)
RemainingHours(target_hours, logged_hours) == Max(0, target_hours - logged_hours)

get_session_info(etable, mtable, cfg, target_date, session) ==
    LET target_hours == IF session = "morning" THEN cfg.morning_hours_target
                                               ELSE cfg.afternoon_hours_target
        session_start == _parse_time(IF session = "morning" THEN cfg.workday_start
                                                            ELSE cfg.lunch_end)
        session_end == _parse_time(IF session = "morning" THEN cfg.lunch_start
                                                          ELSE cfg.workday_end)
        session_entries == _filter_entries_by_session(get_entries(etable, target_date),
                                                      session)
        logged_hours == SumSeq([ i \in 1..Len(session_entries) |->
                                   session_entries[i].hours ])
        session_meetings == _filter_meetings_by_session(
                                get_meetings_for_date(mtable, target_date),
                                session_start.minute, session_end.minute)
        pending == SelectSeq(session_meetings, LAMBDA m : ~m.is_imported)
        meeting_hours == SumSeq([ i \in 1..Len(pending) |->
                                    _round_hours(duration_hours(pending[i])) ])
    IN  IF session_start.kind # "ok" THEN [ kind |-> session_start.kind ]
        ELSE IF session_end.kind # "ok" THEN [ kind |-> session_end.kind ]
        ELSE [ kind |-> "ok",
               target_hours |-> target_hours,
               logged_hours |-> logged_hours,
               meeting_hours |-> meeting_hours,
               remaining_hours |-> RemainingHours(target_hours, logged_hours),
               entries |-> session_entries,
               meetings |-> session_meetings ]

\* the suggestion without the floor of one hour
SuggestNoFloor(remaining_hours, meeting_hours) ==
    Min(remaining_hours - meeting_hours, remaining_hours)

\* max(1, min(available, remaining_hours))
SuggestFrom(remaining_hours, meeting_hours) ==
    Max(1, Min(remaining_hours - meeting_hours, remaining_hours))

\* suggest_hours: the suggestion, or -1 when get_session_info raised
suggest_hours(etable, mtable, cfg, target_date, session) ==
    LET info == get_session_info(etable, mtable, cfg, target_date, session)
    IN  IF info.kind # "ok" THEN -1
        ELSE SuggestFrom(info.remaining_hours, info.meeting_hours)

\* get_day_summary, when both sessions' get_session_info return
get_day_summary(etable, mtable, cfg, target_date) ==
    LET morning_info == get_session_info(etable, mtable, cfg, target_date, "morning")
        afternoon_info == get_session_info(etable, mtable, cfg, target_date, "afternoon")
        total_hours == morning_info.logged_hours + afternoon_info.logged_hours
        total_target == morning_info.target_hours + afternoon_info.target_hours
    IN  [ morning |-> morning_info, afternoon |-> afternoon_info,
          total_hours |-> total_hours, total_target |-> total_target,
          is_complete |-> total_hours >= total_target ]

(***************************************************************************)
(* The Outlook calendar, the outlook_meetings cache, sync and import       *)
(***************************************************************************)
Today == 1

MinItemMinutes == 5
MaxItemMinutes == 600

sStandup == << "s","y","n","c"," ","A","B","-","1" >>
sLunch   == << "l","u","n","c","h" >>
sReview  == << "r","e","v","i","e","w" >>

\* today's items of the Outlook calendar, sorted by [Start]:
\* 10:00-11:30, 12:15-12:45 and 14:00-14:45
OutlookItems ==
    << [ subject |-> sStandup, start_minute |-> 600, end_minute |-> 690,
         all_day |-> FALSE, body |-> None ],
       [ subject |-> sLunch, start_minute |-> 735, end_minute |-> 765,
         all_day |-> FALSE, body |-> None ],
       [ subject |-> sReview, start_minute |-> 840, end_minute |-> 885,
         all_day |-> FALSE, body |-> None ] >>

\* _parse_calendar_item keeps an item unless it is all-day or its duration is
\* outside 5 minutes .. 10 hours
ParsesToMeeting(item) ==
    /\ ~item.all_day
    /\ item.end_minute - item.start_minute >= MinItemMinutes
    /\ item.end_minute - item.start_minute <= MaxItemMinutes

\* matching_service.match_event(reader.to_calendar_event(meeting))
ItemMatch(ptable, item) ==
    match_event(ptable, [ subject |-> item.subject, description |-> item.body ])

\* OutlookMeeting(...) as _parse_calendar_item builds it, with a fresh id, then
\* annotated with the match result as _sync_outlook does
SyncedMeeting(ptable, item, id) ==
    LET r == ItemMatch(ptable, item)
    IN  [ id |-> id, subject |-> item.subject, date |-> Today,
          start_minute |-> item.start_minute, end_minute |-> item.end_minute,
          matched_project_id |-> r.project_id,
          matched_jira_key |-> r.ticket_jira_key,
          match_confidence |-> r.confidence,
          is_imported |-> FALSE, imported_entry_id |-> None ]

\* the id under which _sync_outlook saves the n-th meeting it parsed: the
\* fresh id OutlookMeeting's default factory generated for it
SyncId(mtable, base, n) == base + n

\* save_outlook_meeting: INSERT OR REPLACE INTO outlook_meetings
save_outlook_meeting(mtable, meeting) ==
    LET i == RowOf(mtable, meeting.id)
    IN  IF i = 0 THEN Append(mtable, meeting)
        ELSE [ mtable EXCEPT ![i] = meeting ]

\* the loop of _sync_outlook over the parsed meetings, the n-th next
RECURSIVE SyncLoop(_, _, _, _, _)
SyncLoop(ptable, mtable, items, base, n) ==
    IF n > Len(items) THEN mtable
    ELSE SyncLoop(ptable,
                  save_outlook_meeting(mtable,
                      SyncedMeeting(ptable, items[n], SyncId(mtable, base, n))),
                  items, base, n + 1)

\* UPDATE outlook_meetings SET is_imported = 1, imported_entry_id = ? WHERE id = ?
mark_meeting_imported(mtable, meeting_id, entry_id) ==
    [ i \in 1..Len(mtable) |->
        IF mtable[i].id = meeting_id
        THEN [ mtable[i] EXCEPT !.is_imported = TRUE,
                                !.imported_entry_id = Some(entry_id) ]
        ELSE mtable[i] ]

\* hour of the start of a meeting, and the hour of a configured time
HourOf(minute) == minute \div 60
CutoffHour(time_str) == IntOf(SplitColon(time_str, << >>)[1], 0)

\* _load_meetings: the meetings of the date the popup of a session lists
ListedMeetings(mtable, cfg, d, session) ==
    LET cutoff_hour == IF session = "morning" THEN CutoffHour(cfg.lunch_start)
                                              ELSE CutoffHour(cfg.lunch_end)
    IN  SelectSeq(get_meetings_for_date(mtable, d),
                  LAMBDA m : IF session = "morning"
                             THEN HourOf(m.start_minute) < cutoff_hour
                             ELSE HourOf(m.start_minute) >= cutoff_hour)

UnknownProject == "Unknown Project"

\* whether _import_selected_meetings converts the meeting it re-read
Importable(meeting) == ~meeting.is_imported

\* the entry _import_selected_meetings builds for a meeting
ImportedEntry(ptable, meeting, id) ==
    LET project == IF meeting.matched_project_id = None THEN None
                   ELSE get_project(ptable, meeting.matched_project_id[1])
    IN  TimesheetEntry(id, meeting.date,
                       Max(1, RoundHalfEven(duration_hours(meeting), 100)),
                       IF project = None THEN None ELSE Some(project[1].ticket_number),
                       IF project = None THEN Some(UnknownProject)
                                         ELSE Some(project[1].name),
                       "TPLNT", meeting.subject, "draft", "calendar")

\* the loop of _import_selected_meetings over the listed items, the n-th next;
\* st holds the two tables and the id counter
RECURSIVE ImportLoop(_, _, _, _, _, _)
ImportLoop(ptable, st, listed, checked, d, n) ==
    IF n > Len(listed) THEN st
    ELSE LET meeting_id == listed[n].id
             now == get_meetings_for_date(st.meetings, d)
             hit == SelectSeq(now, LAMBDA m : m.id = meeting_id)
         IN  IF meeting_id \in checked /\ hit # << >> /\ Importable(hit[1])
             THEN LET entry == ImportedEntry(ptable, hit[1], st.nextId + 1)
                  IN  ImportLoop(ptable,
                          [ entries |-> save_entry(st.entries, entry),
                            meetings |-> mark_meeting_imported(st.meetings,
                                                               meeting_id, entry.id),
                            nextId |-> st.nextId + 1 ],
                          listed, checked, d, n + 1)
             ELSE ImportLoop(ptable, st, listed, checked, d, n + 1)

(***************************************************************************)
(* Operations on the store                                                 *)
(***************************************************************************)
MaxEntries == 3
MaxMeetings == 6
MaxOps == 4

Dates == { Today, Today + 1 }
Sessions == { "morning", "afternoon" }
EntryHours == { 1, 2 }

Configs ==
    { DefaultConfig,
      [ DefaultConfig EXCEPT !.morning_hours_target = 1,
                             !.afternoon_hours_target = 2 ] }

\* the projects table of the runs that do not change it
StoreProjects ==
    << Project("p1", "Alpha", "2019135", Some(kAB1), << wSy >>, TRUE),
       Project("p2", "Beta", "2019136", Some(kCD2), << wSYNC >>, TRUE) >>

\* the members of a set of numbers, ascending
RECURSIVE SetToSeq(_)
SetToSeq(S) ==
    IF S = {} THEN << >>
    ELSE LET m == CHOOSE x \in S : \A y \in S : x <= y
         IN  << m >> \o SetToSeq(S \ { m })

EntryIds == { entries[i].id : i \in 1..Len(entries) }

\* a popup or dialog saves a new draft entry (_add_entry)
AddEntry(d, h) ==
    /\ Len(entries) < MaxEntries
    /\ validate_hours(h)
    /\ entries' = save_entry(entries,
                      TimesheetEntry(nextId + 1, d, h, Some("2019135"), Some("Alpha"),
                                     "GLST", sReview, "draft", "manual"))
    /\ nextId' = nextId + 1
    /\ lastOp' = "add"
    /\ clock < MaxOps /\ clock' = clock + 1
    /\ UNCHANGED << meetings, config, notStore >>

\* TimesheetService.approve_entries(entry_ids)
ApproveEntries(ids) ==
    /\ entries' = approve_entries(entries, SetToSeq(ids))
    /\ lastOp' = "approve"
    /\ clock < MaxOps /\ clock' = clock + 1
    /\ UNCHANGED << meetings, config, nextId, notStore >>

\* SQLiteStore.mark_entries_exported(entry_ids)
MarkEntriesExported(ids) ==
    /\ entries' = mark_entries_exported(entries, SetToSeq(ids), clock + 1)
    /\ lastOp' = "export"
    /\ clock < MaxOps /\ clock' = clock + 1
    /\ UNCHANGED << meetings, config, nextId, notStore >>

\* SQLiteStore.delete_entry(entry_id)
DeleteEntry(id) ==
    /\ entries' = delete_entry(entries, id)
    /\ lastOp' = "delete"
    /\ clock < MaxOps /\ clock' = clock + 1
    /\ UNCHANGED << meetings, config, nextId, notStore >>

\* TIQDesktopApp._sync_outlook, Outlook being available
SyncOutlook ==
    LET parsed == SelectSeq(OutlookItems, ParsesToMeeting)
    IN  /\ Len(meetings) + Len(parsed) <= MaxMeetings
        /\ meetings' = SyncLoop(projects, meetings, parsed, nextId, 1)
        /\ nextId' = nextId + Len(parsed)
        /\ lastOp' = "sync"
        /\ clock < MaxOps /\ clock' = clock + 1
        /\ UNCHANGED << entries, config, notStore >>

\* TimeEntryPopup._import_selected_meetings of the popup of a session, the
\* items of the set checked being ticked
ImportSelectedMeetings(session, checked) ==
    LET listed == ListedMeetings(meetings, config, Today, session)
        st == ImportLoop(projects,
                         [ entries |-> entries, meetings |-> meetings,
                           nextId |-> nextId ],
                         listed, checked, Today, 1)
    IN  /\ Len(st.entries) <= MaxEntries
        /\ entries' = st.entries
        /\ meetings' = st.meetings
        /\ nextId' = st.nextId
        /\ lastOp' = "import"
        /\ clock < MaxOps /\ clock' = clock + 1
        /\ UNCHANGED << config, notStore >>

ListedIds(session) ==
    LET listed == ListedMeetings(meetings, config, Today, session)
    IN  { listed[i].id : i \in 1..Len(listed) }

(***************************************************************************)
(* Saving and soft-deleting projects.  The statements run on the database, *)
(* of which the model keeps the tables projects and timesheet_entries.     *)
(***************************************************************************)
Database(ps, es) == [ projects |-> ps, entries |-> es ]

\* a save that also rewrites the entries carrying the name of the saved project
SaveProjectCascade(db, project) ==
    LET old == get_project(db.projects, project.id)
    IN  [ projects |-> Append(SelectSeq(db.projects, LAMBDA p : p.id # project.id), project),
          entries  |-> [ i \in 1..Len(db.entries) |->
                           IF old # None /\ db.entries[i].project_name = Some(old[1].name)
                           THEN [ db.entries[i] EXCEPT !.project_name = Some(project.name),
                                                       !.ticket_number = Some(project.ticket_number) ]
                           ELSE db.entries[i] ] ]

\* INSERT OR REPLACE INTO projects: the row of the same id is deleted and the
\* new row gets the next rowid
save_project(db, project) ==
    [ db EXCEPT !.projects = Append(SelectSeq(@, LAMBDA p : p.id # project.id), project) ]

\* a delete that removes the row
DeleteProjectRow(db, project_id) ==
    [ db EXCEPT !.projects = SelectSeq(@, LAMBDA p : p.id # project_id) ]

\* UPDATE projects SET is_active = 0 WHERE id = ?
delete_project(db, project_id) ==
    [ db EXCEPT !.projects = [ i \in 1..Len(@) |->
                                 IF @[i].id = project_id
                                 THEN [ @[i] EXCEPT !.is_active = FALSE ]
                                 ELSE @[i] ] ]

MaxProjects == 2

\* what the operator types into the project form: name, ticket number, JIRA
\* key and keywords
ProjectForms ==
    { << "Alpha", "2019135", Some(kAB1), << wSy >> >>,
      << "Beta", "2019136", Some(kab1), << wSYNC >> >>,
      << "Gamma", "2019137", None, << wSync >> >> }

\* a new name, or a new ticket number, for a stored project
ProjectEdits == { << Some("Omega"), None >>, << None, Some("2020001") >> }

ProjectIds == { projects[i].id : i \in 1..Len(projects) }

\* events matched after the projects changed: a key in the subject, a key in
\* the description, a keyword only
LaterEvents ==
    { [ subject |-> sStandup, description |-> None ],
      [ subject |-> sReview, description |-> Some(kAB1) ],
      [ subject |-> wSync, description |-> None ] }

\* MainWindow._add_project: Project(...) with a fresh id, then save_project
AddProject(form) ==
    LET project == Project(nextId + 1, form[1], form[2], form[3], form[4], TRUE)
        db == save_project(Database(projects, entries), project)
    IN  /\ Len(projects) < MaxProjects
        /\ projects' = db.projects
        /\ entries' = db.entries
        /\ nextId' = nextId + 1
        /\ lastOp' = "save_project"
        /\ clock < MaxOps /\ clock' = clock + 1
        /\ UNCHANGED << event, result, mpc, meetings, config, calVars, hdbVars, aggVars, shellVars >>

\* save_project of a stored project after a change of its name or ticket number
UpdateProject(project_id, edit) ==
    LET got == get_project(projects, project_id)[1]
        project == [ got EXCEPT !.name = IF edit[1] = None THEN @ ELSE edit[1][1],
                                !.ticket_number = IF edit[2] = None THEN @ ELSE edit[2][1] ]
        db == save_project(Database(projects, entries), project)
    IN  /\ project_id \in ProjectIds
        /\ projects' = db.projects
        /\ entries' = db.entries
        /\ lastOp' = "save_project"
        /\ clock < MaxOps /\ clock' = clock + 1
        /\ UNCHANGED << event, result, mpc, meetings, config, nextId, calVars, hdbVars, aggVars, shellVars >>

\* MainWindow._delete_project
DeleteProject(project_id) ==
    LET db == delete_project(Database(projects, entries), project_id)
    IN  /\ project_id \in ProjectIds
        /\ projects' = db.projects
        /\ entries' = db.entries
        /\ lastOp' = "delete_project"
        /\ clock < MaxOps /\ clock' = clock + 1
        /\ UNCHANGED << event, result, mpc, meetings, config, nextId, calVars, hdbVars, aggVars, shellVars >>

\* TimeEntryPopup._add_entry for the project chosen in the combo box
AddProjectEntry(project_id, h) ==
    LET project == get_project(projects, project_id)[1]
    IN  /\ project_id \in ProjectIds
        /\ Len(entries) < MaxEntries
        /\ validate_hours(h)
        /\ entries' = save_entry(entries,
                          TimesheetEntry(nextId + 1, Today, h, Some(project.ticket_number),
                                         Some(project.name), "GLST", sReview, "draft", "manual"))
        /\ nextId' = nextId + 1
        /\ lastOp' = "add"
        /\ clock < MaxOps /\ clock' = clock + 1
        /\ UNCHANGED << meetings, config, notStore >>

\* result = matching_service.match_event(ev), at any time
MatchLater(ev) ==
    /\ event' = ev
    /\ result' = match_event(projects, ev)
    /\ mpc' = "matched"
    /\ lastOp' = "match_event"
    /\ clock < MaxOps /\ clock' = clock + 1
    /\ UNCHANGED << projects, entries, meetings, config, nextId, calVars, hdbVars, aggVars, shellVars >>

(***************************************************************************)
(* HolidayService.  A date is the number of its day in 2026 (1 January is  *)
(* day 1, a Thursday); weekday() counts from Monday = 0.                   *)
(***************************************************************************)
DaysInYear == 365
YearDates == 1..DaysInYear

weekday(d) == (d + 2) % 7

Holiday(d, holiday_type) == [ date |-> d, holiday_type |-> holiday_type ]

\* Holiday.expected_hours
HolidayExpectedHours(h) == IF h.holiday_type = "full_day" THEN 0 ELSE 4

HOLIDAYS_2026 ==
    << Holiday(1, "full_day"),
       Holiday(78, "half_day"), Holiday(79, "full_day"),
       Holiday(80, "full_day"), Holiday(81, "full_day"),
       Holiday(113, "full_day"),
       Holiday(121, "full_day"),
       Holiday(139, "full_day"),
       Holiday(145, "half_day"), Holiday(146, "full_day"),
       Holiday(147, "full_day"), Holiday(148, "full_day"),
       Holiday(149, "full_day"), Holiday(150, "full_day"),
       Holiday(196, "full_day"),
       Holiday(242, "full_day"),
       Holiday(301, "half_day"), Holiday(302, "full_day") >>

\* self._holidays = holidays or HOLIDAYS_2026 (None and the empty list are falsy)
HolidaysOrDefault(given) ==
    IF given = None \/ given[1] = << >> THEN HOLIDAYS_2026 ELSE given[1]

\* {h.date: h for h in self._holidays}: the last record of a date wins
HolidayMapOf(hs) ==
    LET ds == { hs[i].date : i \in 1..Len(hs) }
    IN  [ d \in ds |-> hs[CHOOSE i \in 1..Len(hs) :
                             /\ hs[i].date = d
                             /\ \A j \in 1..Len(hs) : hs[j].date = d => j <= i] ]

\* self._holiday_map.get(check_date)
HolidayMapGet(map, d) == IF d \in DOMAIN map THEN Some(map[d]) ELSE None

IsWeekend(d) == weekday(d) >= 5

is_full_day_holiday(map, d) ==
    LET holiday == HolidayMapGet(map, d)
    IN  holiday # None /\ holiday[1].holiday_type = "full_day"

is_half_day_holiday(map, d) ==
    LET holiday == HolidayMapGet(map, d)
    IN  holiday # None /\ holiday[1].holiday_type = "half_day"

\* expected hours that look the holiday up before the weekend
HolidayBeforeWeekend(map, d) ==
    LET holiday == HolidayMapGet(map, d)
    IN  IF holiday # None THEN HolidayExpectedHours(holiday[1])
        ELSE IF IsWeekend(d) THEN 0
        ELSE 8

get_expected_hours(map, d) ==
    LET holiday == HolidayMapGet(map, d)
    IN  IF IsWeekend(d) THEN 0
        ELSE IF holiday # None THEN HolidayExpectedHours(holiday[1])
        ELSE 8

\* a workday test that takes a half-day holiday for a day off
WorkdayWithoutHalfDays(map, d) ==
    IF IsWeekend(d) THEN FALSE
    ELSE IF HolidayMapGet(map, d) # None THEN FALSE
    ELSE TRUE

is_workday(map, d) ==
    IF IsWeekend(d) THEN FALSE
    ELSE IF is_full_day_holiday(map, d) THEN FALSE
    ELSE TRUE

MaxHolidays == 3

\* 19 March (a Thursday), 21 March (a Saturday), 23 March (a Monday)
HolidayDateChoices == { 78, 80, 82 }
HolidayChoices ==
    { Holiday(d, t) : d \in HolidayDateChoices, t \in { "full_day", "half_day" } }

RECURSIVE SeqsUpTo(_, _)
SeqsUpTo(S, n) ==
    IF n = 0 THEN { << >> }
    ELSE LET shorter == SeqsUpTo(S, n - 1)
         IN  shorter \cup { Append(t, x) : t \in shorter, x \in S }

HolidayLists == { None } \cup { Some(hs) : hs \in SeqsUpTo(HolidayChoices, MaxHolidays) }

\* HolidayService(holidays)
NewHolidayService(given) ==
    /\ loaded' = given
    /\ holidays' = HolidaysOrDefault(given)
    /\ holiday_map' = HolidayMapOf(HolidaysOrDefault(given))
    /\ UNCHANGED notCal

\* HolidayService.get_holidays_in_range: the records of the list in the range
get_holidays_in_range(hs, start_date, end_date) ==
    SelectSeq(hs, LAMBDA h : start_date <= h.date /\ h.date <= end_date)

\* calendar.monthrange(2026, month)[1]
monthrange(month) == << 31, 28, 31, 30, 31, 30, 31, 31, 30, 31, 30, 31 >>[month]

\* date(2026, month, day) as a day of the year
RECURSIVE DateOf(_, _)
DateOf(month, day) == IF month = 1 THEN day ELSE monthrange(month - 1) + DateOf(month - 1, day)

\* HolidayService.get_workdays_in_month(2026, month): day 1 to the last, the
\* workdays appended with their expected hours
RECURSIVE WorkdaysFrom(_, _, _)
WorkdaysFrom(map, month, day) ==
    IF day > monthrange(month) THEN << >>
    ELSE LET d == DateOf(month, day)
         IN  (IF is_workday(map, d) THEN << << d, get_expected_hours(map, d) >> >> ELSE << >>)
                 \o WorkdaysFrom(map, month, day + 1)

get_workdays_in_month(map, month) == WorkdaysFrom(map, month, 1)

(***************************************************************************)
(* Table holidays of the store: holiday_date is UNIQUE, id AUTOINCREMENT   *)
(***************************************************************************)
HolidayRow(id, d, name, holiday_type, source_file) ==
    [ id |-> id, holiday_date |-> d, name |-> name, holiday_type |-> holiday_type,
      source_file |-> source_file ]

\* INSERT OR REPLACE: the row that holds the date is deleted, the new row gets
\* the next id
InsertOrReplace(rows, seq, d, name, holiday_type, source_file) ==
    Append(SelectSeq(rows, LAMBDA r : r.holiday_date # d),
           HolidayRow(seq + 1, d, name, holiday_type, source_file))

save_holiday(rows, seq, d, name, holiday_type, source_file) ==
    InsertOrReplace(rows, seq, d, name, holiday_type, source_file)

\* save_holidays_batch: one INSERT OR REPLACE per tuple, in list order
RECURSIVE save_holidays_batch(_, _, _, _)
save_holidays_batch(rows, seq, tuples, source_file) ==
    IF tuples = << >> THEN rows
    ELSE LET t == Head(tuples)
         IN  save_holidays_batch(InsertOrReplace(rows, seq, t[1], t[2], t[3], source_file),
                                 seq + 1, Tail(tuples), source_file)

\* get_holidays(): ORDER BY holiday_date
get_holidays(rows) == SortSeq(rows, LAMBDA a, b : a.holiday_date < b.holiday_date)

delete_holidays_by_source(rows, source_file) ==
    SelectSeq(rows, LAMBDA r : r.source_file # source_file)

delete_holiday(rows, holiday_id) == SelectSeq(rows, LAMBDA r : r.id # holiday_id)

clear_all_holidays(rows) == << >>

MaxSaves == 3

\* 19 March and 23 April 2026
StoreDates == { 78, 113 }
HolidayNames == { "Arife", "Bayram" }
HolidayTypes == { "full_day", "half_day" }
SourceFiles == { "takvim.pdf", "defaults_2026" }
HolidayTuples == { << d, n, t >> : d \in StoreDates, n \in HolidayNames, t \in HolidayTypes }

\* what an upload can hold: one tuple, or two tuples of which the second may
\* repeat the date of the first
HolidayBatches ==
    { << a >> : a \in HolidayTuples }
        \cup { << a, b >> : a \in { << 78, "Arife", "half_day" >> }, b \in HolidayTuples }

NoSaves == [ d \in StoreDates |-> None ]

\* the name and type of the last tuple of each date
RECURSIVE Noted(_, _)
Noted(rec, tuples) ==
    IF tuples = << >> THEN rec
    ELSE LET t == Head(tuples)
         IN  Noted([ rec EXCEPT ![t[1]] = Some(<< t[2], t[3] >>) ], Tail(tuples))

SaveHoliday(d, name, holiday_type, source_file) ==
    /\ holiday_seq < MaxSaves
    /\ holiday_rows' = save_holiday(holiday_rows, holiday_seq, d, name, holiday_type, source_file)
    /\ holiday_seq' = holiday_seq + 1
    /\ recent' = Noted(recent, << << d, name, holiday_type >> >>)
    /\ UNCHANGED notHdb

\* MainWindow._upload_holiday_file / _load_default_holidays: the batch is
\* saved; the reload the window asks of the holiday service afterwards is not
\* a method of HolidayService, so the service keeps its table
SaveHolidaysBatch(tuples, source_file) ==
    /\ holiday_seq + Len(tuples) <= MaxSaves
    /\ holiday_rows' = save_holidays_batch(holiday_rows, holiday_seq, tuples, source_file)
    /\ holiday_seq' = holiday_seq + Len(tuples)
    /\ recent' = Noted(recent, tuples)
    /\ UNCHANGED notHdb

DeleteHoliday(holiday_id) ==
    /\ holiday_rows' = delete_holiday(holiday_rows, holiday_id)
    /\ UNCHANGED << holiday_seq, recent, notHdb >>

DeleteHolidaysBySource(source_file) ==
    /\ holiday_rows' = delete_holidays_by_source(holiday_rows, source_file)
    /\ UNCHANGED << holiday_seq, recent, notHdb >>

ClearAllHolidays ==
    /\ holiday_rows' = clear_all_holidays(holiday_rows)
    /\ UNCHANGED << holiday_seq, recent, notHdb >>

\* lists a caller of HolidayService(holidays) builds from the store's tuples
RowLists ==
    { << >> } \cup { << Holiday(78, t) >> : t \in HolidayTypes }
        \cup { << Holiday(78, "half_day"), Holiday(d, "full_day") >> : d \in StoreDates }

(***************************************************************************)
(* TimesheetService: entries from events, manual entries, aggregation.     *)
(* An operation that can raise returns [raised, entries].                  *)
(***************************************************************************)
\* UserSettings() with the defaults of the model class
DefaultSettings ==
    [ consultant_id |-> DefaultConsultant, default_location |-> DefaultLocation,
      default_activity_code |-> "GLST", meeting_activity_code |-> "TPLNT",
      skip_canceled_meetings |-> TRUE, min_meeting_duration_minutes |-> 15 ]

Raised == [ raised |-> TRUE, entries |-> << >> ]
Returned(es) == [ raised |-> FALSE, entries |-> es ]

\* x or ""
OrEmpty(x) == IF x = None THEN "" ELSE x[1]

\* TimesheetService._round_hours(float(event.duration_hours)), the duration
\* counted in hundredths of an hour
ServiceRoundHours(hundredths) == Max(1, RoundHalfEven(hundredths, 100))

pFW == << "F","W",":"," " >>
pRE == << "R","E",":"," " >>
pCanceled == << "C","a","n","c","e","l","e","d",":"," " >>

StartsWith(t, prefix) ==
    Len(t) >= Len(prefix) /\ SubSeq(t, 1, Len(prefix)) = prefix
StripPrefix(t, prefix) ==
    IF StartsWith(t, prefix) THEN SubSeq(t, Len(prefix) + 1, Len(t)) ELSE t

\* CalendarEvent.to_timesheet_description
to_timesheet_description(subject) ==
    StripPrefix(StripPrefix(StripPrefix(subject, pFW), pRE), pCanceled)

\* match_events: the event annotated with the result of match_event
Annotated(ptable, ev) ==
    LET r == match_event(ptable, ev)
    IN  [ ev EXCEPT !.matched_project_id = r.project_id,
                    !.matched_jira_key = r.ticket_jira_key,
                    !.match_confidence = r.confidence,
                    !.match_source = Some(r.match_source) ]

\* float(event.duration_hours) < settings.min_meeting_duration_minutes / 60
BelowMinimum(ev, settings) ==
    60 * ev.duration_hours < 100 * settings.min_meeting_duration_minutes

\* _create_entry_from_event, the constructor's validation apart; the branch
\* that looks up a ticket needs matched_ticket_id, which match_events never sets
_create_entry_from_event(ptable, ev, settings, id) ==
    LET project == IF ev.matched_project_id = None THEN None
                   ELSE get_project(ptable, ev.matched_project_id[1])
    IN  [ TimesheetEntry(id, ev.start_date, ServiceRoundHours(ev.duration_hours),
                         None,
                         IF project = None THEN None ELSE Some(project[1].name),
                         settings.meeting_activity_code,
                         to_timesheet_description(ev.subject),
                         "draft", "calendar")
          EXCEPT !.consultant_id = settings.consultant_id,
                 !.location = settings.default_location,
                 !.source_event_id = Some(ev.id),
                 !.source_jira_key = ev.matched_jira_key ]

\* the loop of generate_entries_from_events from event n on (every event was
\* annotated by match_events before); acc is the list built so far
RECURSIVE GenerateLoop(_, _, _, _, _)
GenerateLoop(ptable, evs, settings, n, acc) ==
    IF n > Len(evs) THEN Returned(acc)
    ELSE IF BelowMinimum(evs[n], settings)
         THEN GenerateLoop(ptable, evs, settings, n + 1, acc)
         ELSE LET entry == _create_entry_from_event(ptable, Annotated(ptable, evs[n]),
                                                    settings, n)
              IN  IF ~validate_hours(entry.hours) THEN Raised
                  ELSE GenerateLoop(ptable, evs, settings, n + 1, Append(acc, entry))

\* the id of the n-th entry stands for the fresh id the constructor generates
generate_entries_from_events(ptable, evs, settings) ==
    GenerateLoop(ptable, evs, settings, 1, << >>)

\* create_manual_entry with the settings' defaults for activity and location
create_manual_entry(entry_date, hours, description, project_name, ticket_number, activity_code, settings) ==
    IF ~validate_hours(hours) THEN Raised
    ELSE Returned(<< [ TimesheetEntry(0, entry_date, hours, ticket_number,
                                      project_name,
                                      IF activity_code = None
                                      THEN settings.default_activity_code
                                      ELSE activity_code[1],
                                      description, "draft", "manual")
                       EXCEPT !.consultant_id = settings.consultant_id,
                              !.location = settings.default_location ] >>)

\* a key that takes the project name as it is
AggKeyRawName(entry) ==
    << entry.entry_date, entry.project_name,
       OrEmpty(entry.ticket_number), entry.activity_code >>

\* the key of aggregate_entries
AggKey(entry) ==
    << entry.entry_date, OrEmpty(entry.project_name),
       OrEmpty(entry.ticket_number), entry.activity_code >>

Separator == << ";", " " >>

\* existing.hours += entry.hours (an assignment, which the model class does
\* not validate) and the description appended unless already contained
MergedHours(existing, entry) == existing.hours + entry.hours

\* a merge that appends every description
MergeAlwaysAppend(existing, entry) ==
    [ existing EXCEPT
        !.hours = MergedHours(existing, entry),
        !.description = existing.description \o Separator \o entry.description ]

Merge(existing, entry) ==
    [ existing EXCEPT
        !.hours = MergedHours(existing, entry),
        !.description = IF Contains(entry.description, existing.description)
                        THEN existing.description
                        ELSE existing.description \o Separator \o entry.description ]

\* the new TimesheetEntry of a key: a fresh id (the negated position in the
\* result), status draft, no exported_at
NewAggregated(entry, position) ==
    [ TimesheetEntry(0 - position, entry.entry_date, entry.hours,
                     entry.ticket_number, entry.project_name, entry.activity_code,
                     entry.description, "draft", entry.source)
      EXCEPT !.consultant_id = entry.consultant_id, !.location = entry.location ]

\* position of the key in the dict of aggregated entries, or 0
KeyIndex(aggregated, key) ==
    IF \E i \in 1..Len(aggregated) : AggKey(aggregated[i]) = key
    THEN CHOOSE i \in 1..Len(aggregated) : AggKey(aggregated[i]) = key
    ELSE 0

\* the loop of aggregate_entries from entry n on; aggregated holds the values
\* of the dict in insertion order
RECURSIVE AggregateLoop(_, _, _)
AggregateLoop(es, n, aggregated) ==
    IF n > Len(es) THEN Returned(aggregated)
    ELSE LET entry == es[n]
             i == KeyIndex(aggregated, AggKey(entry))
         IN  IF i # 0
             THEN AggregateLoop(es, n + 1,
                      [ aggregated EXCEPT ![i] = Merge(aggregated[i], entry) ])
             ELSE IF ~validate_hours(entry.hours) THEN Raised
             ELSE AggregateLoop(es, n + 1,
                      Append(aggregated, NewAggregated(entry, Len(aggregated) + 1)))

aggregate_entries(es) == AggregateLoop(es, 1, << >>)

(***************************************************************************)
(* Inputs and steps of the entry-producing runs                            *)
(***************************************************************************)
MaxLen == 3
MaxBatch == 2

dAB == << "a", "b" >>
dA  == << "a" >>

BaseKey == [ d |-> 1, p |-> Some("Alpha"), t |-> Some("2019135"), a |-> None ]

\* the arguments of create_manual_entry: one base key and its variations in
\* one component, an absent and an empty name or ticket number among them
ManualKeys ==
    { BaseKey,
      [ d |-> 2, p |-> Some("Alpha"), t |-> Some("2019135"), a |-> None ],
      [ d |-> 1, p |-> None,          t |-> Some("2019135"), a |-> None ],
      [ d |-> 1, p |-> Some(""),      t |-> Some("2019135"), a |-> None ],
      [ d |-> 1, p |-> Some("Alpha"), t |-> None,            a |-> None ],
      [ d |-> 1, p |-> Some("Alpha"), t |-> Some(""),        a |-> None ],
      [ d |-> 1, p |-> Some("Alpha"), t |-> None,            a |-> Some("TPLNT") ] }

dStandup == << "s","t","a","n","d","u","p" >>
dCoding  == << "c","o","d","i","n","g" >>

ManualHours ==
    { << 0, dA >>, << 1, dAB >>, << 24, dA >>, << 25, dAB >>, << 2, dStandup >>, << 3, dCoding >> }

\* the calls made: the first key with every choice of hours, the variations
\* with one hour
ManualCalls ==
    { << BaseKey, hd >> : hd \in ManualHours }
        \cup { << k, << 1, dAB >> >> : k \in ManualKeys }

CalendarEvent(id, subject, start_date, hundredths) ==
    [ id |-> id, subject |-> subject, description |-> None,
      start_date |-> start_date, duration_hours |-> hundredths,
      is_canceled |-> FALSE,
      matched_project_id |-> None, matched_jira_key |-> None,
      match_confidence |-> Zero, match_source |-> None ]

sFwReview == pFW \o sReview

\* events of 12 minutes, 15 minutes, 1.5 hours, 24.6 hours and 1 hour; the
\* last is a canceled meeting (the parser sets is_canceled for a subject
\* that starts with "Canceled:")
EventChoices ==
    { CalendarEvent("ev1", wSync, 1, 20),
      CalendarEvent("ev2", sFwReview, 1, 25),
      CalendarEvent("ev3", sStandup, 1, 150),
      CalendarEvent("ev4", sReview, 2, 2460),
      [ CalendarEvent("ev5", pCanceled \o wSync, 2, 100) EXCEPT !.is_canceled = TRUE ] }

EventBatches == SeqsUpTo(EventChoices, MaxBatch) \ { << >> }

NotRun == Returned(<< >>)

\* what the operations return for the inputs of the model
ManualResults ==
    [ k \in ManualKeys, hd \in ManualHours |->
        create_manual_entry(k.d, hd[1], hd[2], k.p, k.t, k.a, DefaultSettings) ]
GeneratedResults ==
    [ batch \in EventBatches |->
        generate_entries_from_events(StoreProjects, batch, DefaultSettings) ]
\* (projects is StoreProjects throughout the entry-producing runs)

\* the entries with the ids base + 1, base + 2, ... in place of the fresh ids
\* the constructor generated
Numbered(es, base) == [ i \in 1..Len(es) |-> [ es[i] EXCEPT !.id = base + i ] ]

\* the shell adds the entry create_manual_entry returned to its list
CreateManualEntry(k, hd) ==
    LET r == ManualResults[k, hd]
    IN  /\ apc = "build"
        /\ Len(X) + Len(r.entries) <= MaxLen
        /\ X' = X \o Numbered(r.entries, Len(X))
        /\ UNCHANGED << user_settings, events, generated, out, out2, apc, notAgg >>

\* the shell adds the entries generate_entries_from_events returned to its list
GenerateEntries(batch) ==
    LET r == GeneratedResults[batch]
    IN  /\ apc = "build"
        /\ Len(X) + Len(r.entries) <= MaxLen
        /\ X' = X \o Numbered(r.entries, Len(X))
        /\ UNCHANGED << user_settings, events, generated, out, out2, apc, notAgg >>

\* the minimum durations the settings tab offers, 15 and 20 minutes here
SettingsChoices ==
    { DefaultSettings, [ DefaultSettings EXCEPT !.min_meeting_duration_minutes = 20 ] }

\* the project tables of the generating runs: the two active projects, the
\* first of them soft-deleted, and no project
GenerateTables ==
    { StoreProjects,
      << [ StoreProjects[1] EXCEPT !.is_active = FALSE ], StoreProjects[2] >>,
      << >> }

\* generated = generate_entries_from_events(events), the settings read from the store
GenerateEntriesFromEvents(batch) ==
    /\ events' = batch
    /\ generated' = generate_entries_from_events(projects, batch, user_settings)
    /\ UNCHANGED << user_settings, X, out, out2, apc, notAgg >>

\* out = aggregate_entries(X)
AggregateEntries ==
    /\ apc = "build"
    /\ out' = aggregate_entries(X)
    /\ apc' = "once"
    /\ UNCHANGED << user_settings, events, generated, X, out2, notAgg >>

\* out2 = aggregate_entries(out)
AggregateAgain ==
    /\ apc = "once"
    /\ ~out.raised
    /\ out2' = aggregate_entries(out.entries)
    /\ apc' = "twice"
    /\ UNCHANGED << user_settings, events, generated, X, out, notAgg >>

(***************************************************************************)
(* OutlookParser: the rows of an exported calendar.  A cell is None (NaN)  *)
(* or a present value; a date cell holds a date or a text, a time cell a   *)
(* text.                                                                   *)
(***************************************************************************)
DateCell(d) == Some([ kind |-> "date", day |-> d ])
TextCell(t) == Some([ kind |-> "str", text |-> t ])

\* datetime.strptime(text, "%Y-%m-%d").date() for a year of 2026, or None; the
\* texts of the model hold no "." and no "/", so the other three formats fail
ParseIsoDate(t) ==
    IF Len(t) # 10 \/ t[5] # "-" \/ t[8] # "-" THEN None
    ELSE LET y == IntOf(SubSeq(t, 1, 4), 0)
             m == IntOf(SubSeq(t, 6, 7), 0)
             d == IntOf(SubSeq(t, 9, 10), 0)
         IN  IF y # 2026 \/ m < 1 \/ m > 12 THEN None
             ELSE IF d < 1 \/ d > monthrange(m) THEN None
             ELSE Some(DateOf(m, d))

\* OutlookParser._parse_date
_parse_date(cell) ==
    IF cell = None THEN None
    ELSE IF cell[1].kind = "date" THEN Some(cell[1].day)
    ELSE ParseIsoDate(cell[1].text)

\* OutlookParser._parse_time: the text as HH:MM:SS if strptime takes it as
\* %H:%M (the texts of the model have no seconds and no AM/PM), else the text
\* itself if it holds a colon, else None
ParserParseTime(cell) ==
    IF cell = None THEN None
    ELSE LET t == cell[1].text
             asTime == _parse_time(t)
         IN  IF asTime.kind = "ok" /\ Len(SplitColon(t, << >>)) = 2
             THEN Some(t \o << ":", "0", "0" >>)
             ELSE IF \E i \in 1..Len(t) : t[i] = ":" THEN Some(t)
             ELSE None

\* datetime(y, m, d, int(parts[0]), int(parts[1]), int(parts[2]) if len(parts) > 2
\* else 0) as the minute of the day, or the error it raises
ClockOf(time_str) ==
    LET parts == SplitColon(time_str, << >>)
        hm == _parse_time(time_str)
        sec == IF Len(parts) > 2
               THEN (IF parts[3] = << >> THEN -1 ELSE IntOf(parts[3], 0))
               ELSE 0
    IN  IF hm.kind # "ok" THEN hm
        ELSE IF sec = -1 \/ sec > 59 THEN [ kind |-> "ValueError" ]
        ELSE hm

\* OutlookParser._calculate_duration for a start and an end on one date, in
\* hundredths of an hour (round(hours, 2)), or the error raised
_calculate_duration(start_time, end_time) ==
    LET s == IF start_time = None THEN [ kind |-> "ok", minute |-> 0 ]
             ELSE ClockOf(start_time[1])
        e == IF end_time = None THEN [ kind |-> "ok", minute |-> 23 * 60 + 59 ]
             ELSE ClockOf(end_time[1])
    IN  IF s.kind # "ok" THEN s
        ELSE IF e.kind # "ok" THEN e
        ELSE IF e.minute >= s.minute
             THEN [ kind |-> "ok", hundredths |-> RoundHalfEven(100 * (e.minute - s.minute), 60) ]
             ELSE [ kind |-> "ok", hundredths |-> 0 - RoundHalfEven(100 * (s.minute - e.minute), 60) ]

pCanceledColon == << "C","a","n","c","e","l","e","d",":" >>

\* OutlookParser._parse_row: an event, None, or an exception
_parse_row(row, idx) ==
    LET start_date == _parse_date(row.start_date)
        duration == _calculate_duration(ParserParseTime(row.start_time),
                                        ParserParseTime(row.end_time))
    IN  IF row.subject = << >> THEN [ kind |-> "none" ]
        ELSE IF start_date = None THEN [ kind |-> "none" ]
        ELSE IF duration.kind # "ok" THEN [ kind |-> "raised" ]
        ELSE [ kind |-> "event",
               event |-> [ CalendarEvent(idx, row.subject, start_date[1], duration.hundredths)
                           EXCEPT !.is_canceled = StartsWith(row.subject, pCanceledColon) ] ]

\* OutlookParser.parse: the loop over the rows; a row that raises prints a
\* warning with its index, and the loop goes on
RECURSIVE ParseLoop(_, _, _, _, _)
ParseLoop(table, skip_canceled, idx, evs, warnings) ==
    IF idx > Len(table) THEN [ events |-> evs, warnings |-> warnings ]
    ELSE LET r == _parse_row(table[idx], idx)
         IN  IF r.kind = "raised"
             THEN ParseLoop(table, skip_canceled, idx + 1, evs, Append(warnings, idx))
             ELSE IF r.kind = "none" \/ (skip_canceled /\ r.event.is_canceled)
             THEN ParseLoop(table, skip_canceled, idx + 1, evs, warnings)
             ELSE ParseLoop(table, skip_canceled, idx + 1, Append(evs, r.event), warnings)

parse(table, skip_canceled) == ParseLoop(table, skip_canceled, 1, << >>, << >>)

NotParsed == [ events |-> << >>, warnings |-> << >> ]

MaxRows == 3

t1000 == << "1","0",":","0","0" >>
t1130 == << "1","1",":","3","0" >>
t1x00 == << "1","x",":","0","0" >>
t2500 == << "2","5",":","0","0" >>
tNoon == << "n","o","o","n" >>
tIso  == << "2","0","2","6","-","0","1","-","0","2" >>
tSoon == << "s","o","o","n" >>

ExcelRow(subject, start_date, start_time) ==
    [ subject |-> subject, start_date |-> start_date, start_time |-> start_time,
      end_time |-> TextCell(t1130) ]

\* a good row with a date cell, one with a date text, a canceled meeting, and
\* rows with an unreadable date, an unreadable time with and without a colon,
\* an hour out of range, and a missing date
RowChoices ==
    { ExcelRow(sReview, DateCell(1), TextCell(t1000)),
      ExcelRow(wSync, TextCell(tIso), TextCell(t1000)),
      ExcelRow(pCanceled \o wSync, DateCell(1), TextCell(t1000)),
      ExcelRow(sReview, TextCell(tSoon), TextCell(t1000)),
      ExcelRow(sReview, DateCell(1), TextCell(t1x00)),
      ExcelRow(sReview, DateCell(1), TextCell(tNoon)),
      ExcelRow(sReview, DateCell(1), TextCell(t2500)),
      ExcelRow(sReview, None, TextCell(t1000)) }

\* events = OutlookParser(file).parse(skip_canceled), once per uploaded file
Parse(table, skip_canceled) ==
    /\ sheet = << >>
    /\ sheet' = table
    /\ parse_out' = parse(table, skip_canceled)
    /\ UNCHANGED << notShell, fileVars, schedVars >>

(***************************************************************************)
(* The schedule_config row                                                 *)
(***************************************************************************)
t0930NoColon == << "0","9","3","0" >>

\* time strings that time(int(parts[0]), int(parts[1])) does not accept
BadTimes == { t2500, t1x00, t0930NoColon }

\* ScheduleConfig(...) is built from any strings: the model class declares
\* the four times as plain str fields
ConfigChoices ==
    { DefaultConfig }
    \cup { [ DefaultConfig EXCEPT !.workday_start = t ] : t \in BadTimes }
    \cup { [ DefaultConfig EXCEPT !.lunch_start = t ] : t \in BadTimes }
    \cup { [ DefaultConfig EXCEPT !.lunch_end = t ] : t \in BadTimes }
    \cup { [ DefaultConfig EXCEPT !.workday_end = t ] : t \in BadTimes }

\* SQLiteStore.save_schedule_config(config): INSERT OR REPLACE of row 1
SaveScheduleConfig(cfg) ==
    /\ config # cfg
    /\ config' = cfg
    /\ lastOp' = "config"
    /\ UNCHANGED << entries, meetings, nextId, clock, notStore >>

(***************************************************************************)
(* The Excel exports of the desktop shell and of the dashboard             *)
(***************************************************************************)
\* TimesheetEntry.to_export_row; entry_id is not a column of the sheet: it
\* records which entry object the row was written from
to_export_row(entry) ==
    [ entry_id |-> entry.id,
      consultant_id |-> entry.consultant_id, date |-> entry.entry_date,
      workhour |-> entry.hours,
      ticket_no |-> IF entry.ticket_number = None THEN "" ELSE entry.ticket_number[1],
      project |-> IF entry.project_name = None THEN "" ELSE entry.project_name[1],
      activity_no |-> entry.activity_code, location |-> entry.location,
      activity |-> entry.description ]

ExportRows(es) == [ i \in 1..Len(es) |-> to_export_row(es[i]) ]

\* get_entries(start_date, end_date): ORDER BY entry_date, created_at
RECURSIVE get_entries_between(_, _, _)
get_entries_between(table, start_date, end_date) ==
    IF start_date > end_date THEN << >>
    ELSE get_entries(table, start_date)
         \o get_entries_between(table, start_date + 1, end_date)

\* get_entries_for_export: the draft and approved entries of the range
get_entries_for_export(table, start_date, end_date) ==
    SelectSeq(get_entries_between(table, start_date, end_date),
              LAMBDA e : e.status \in { "draft", "approved" })

\* Timesheet_<%Y-%m>.xlsx, the file of _export_today, and
\* Timesheet_<%B>_<%Y>.xlsx, the file of get_monthly_export_path
TodayFile == "Timesheet_2026-01.xlsx"
MonthlyFile == "Timesheet_January_2026.xlsx"

NoFiles == [ f \in { TodayFile, MonthlyFile } |-> None ]

\* export_to_new_file: a header row and one row per entry
export_to_new_file(es) == Some(ExportRows(es))

\* append_to_existing: the rows from worksheet.max_row + 1 on
append_to_existing(es, existing) == Some(existing[1] \o ExportRows(es))

\* if export_path.exists(): append_to_existing else: export_to_new_file
WriteFile(files, path, es) ==
    [ files EXCEPT ![path] = IF files[path] # None
                             THEN append_to_existing(es, files[path])
                             ELSE export_to_new_file(es) ]

IdsOf(es) == [ i \in 1..Len(es) |-> es[i].id ]

\* TIQDesktopApp._export_today, date.today() being Today
ExportToday ==
    LET todays == get_entries(entries, Today)
    IN  /\ todays # << >>
        /\ export_files' = WriteFile(export_files, TodayFile, todays)
        /\ entries' = mark_entries_exported(entries, IdsOf(todays), clock + 1)
        /\ lastOp' = "export_today"
        /\ clock < MaxOps /\ clock' = clock + 1
        /\ UNCHANGED << meetings, config, nextId, matchVars, calVars, hdbVars, aggVars >>
        /\ UNCHANGED << parseVars, download, schedVars >>

\* the months of the selector of the main window: (first day, last day)
ExportMonths == { << 1, 31 >>, << 32, 59 >> }

\* MainWindow._export_entries for the month picked in the selector
ExportEntries(month_data) ==
    LET selected == get_entries_between(entries, month_data[1], month_data[2])
    IN  /\ selected # << >>
        /\ export_files' = WriteFile(export_files, MonthlyFile, selected)
        /\ entries' = mark_entries_exported(entries, IdsOf(selected), clock + 1)
        /\ lastOp' = "export_month"
        /\ clock < MaxOps /\ clock' = clock + 1
        /\ UNCHANGED << meetings, config, nextId, matchVars, calVars, hdbVars, aggVars >>
        /\ UNCHANGED << parseVars, download, schedVars >>

\* show_timesheet, tab "Export", the button "Download Excel" for the month
\* that holds the entries, with or without the option "aggregate entries"
DownloadExcel(aggregate) ==
    LET stored == get_entries_between(entries, 1, 31)
        export_entries == IF aggregate THEN aggregate_entries(stored).entries
                                       ELSE stored
    IN  /\ stored # << >>
        /\ download' = ExportRows(export_entries)
        /\ entries' = mark_entries_exported(entries, IdsOf(export_entries), clock + 1)
        /\ lastOp' = IF aggregate THEN "download_aggregated" ELSE "download"
        /\ clock < MaxOps /\ clock' = clock + 1
        /\ UNCHANGED << meetings, config, nextId, matchVars, calVars, hdbVars, aggVars >>
        /\ UNCHANGED << parseVars, export_files, schedVars >>

(***************************************************************************)
(* SchedulerManager: the popup jobs and the snoozes                        *)
(***************************************************************************)
SNOOZE_DURATION == 15

\* the time steps of the model: from noon on, one snooze duration apart
MaxTicks == 4
FirstMinute == 12 * 60
MinuteAt(position) == FirstMinute + SNOOZE_DURATION * (position - 1)

t1230 == << "1","2",":","3","0" >>
t1245 == << "1","2",":","4","5" >>

\* SchedulerManager._parse_time: (int(parts[0]), int(parts[1]))
SchedulerParseTime(time_str) ==
    LET parts == SplitColon(time_str, << >>)
    IN  [ hour |-> IntOf(parts[1], 0), minute |-> IntOf(parts[2], 0) ]

\* add_job(func, CronTrigger(hour, minute, day_of_week='mon-fri'), id=...)
CronJob(id, session, at) ==
    [ id |-> id, trigger |-> "cron", session |-> session,
      hour |-> at.hour, minute |-> at.minute, run_date |-> 0 ]

\* add_job(func, 'date', run_date=..., id=...)
DateJob(id, session, run_date) ==
    [ id |-> id, trigger |-> "date", session |-> session,
      hour |-> 0, minute |-> 0, run_date |-> run_date ]

get_job(js, id) == { j \in js : j.id = id }
remove_job(js, id) == { j \in js : j.id # id }

\* a reschedule that leaves the job store as it is
KeepAllJobs(js) == js

remove_all_jobs(js) == {}

\* add_job: with replace_existing the job of the same id is replaced
add_job(js, job, replace_existing) ==
    IF replace_existing THEN remove_job(js, job.id) \cup { job }
    ELSE js \cup { job }

\* _schedule_jobs on the job store js under config cfg
_schedule_jobs(cfg, js) ==
    LET morning == SchedulerParseTime(cfg.morning_popup_time)
        afternoon == SchedulerParseTime(cfg.afternoon_popup_time)
        with_morning == IF cfg.morning_popup_enabled
                        THEN add_job(js, CronJob("morning_popup", "morning", morning), TRUE)
                        ELSE js
    IN  IF cfg.afternoon_popup_enabled
        THEN add_job(with_morning, CronJob("afternoon_popup", "afternoon", afternoon), TRUE)
        ELSE with_morning

\* _schedule_snooze(session) at minute now_minute
_schedule_snooze(js, session, now_minute) ==
    LET job_id == IF session = "morning" THEN "snooze_morning" ELSE "snooze_afternoon"
        without == IF get_job(js, job_id) # {} THEN remove_job(js, job_id) ELSE js
    IN  add_job(without, DateJob(job_id, session, now_minute + SNOOZE_DURATION), FALSE)

\* the property is_running
is_running == _scheduler # None /\ _scheduler[1].running

Jobs == IF _scheduler = None THEN {} ELSE _scheduler[1].jobs

\* the schedule configs the settings dialog saves: HH:mm times of QTimeEdit
PopupConfigs ==
    { [ DefaultConfig EXCEPT !.morning_popup_enabled = me,
                             !.morning_popup_time = mt,
                             !.afternoon_popup_enabled = ae,
                             !.afternoon_popup_time = t1245 ] :
        me \in BOOLEAN, ae \in BOOLEAN, mt \in { t1215, t1230 } }

\* TIQDesktopApp._setup_scheduler: start() with the config of the store; a
\* running scheduler is stopped first and a new BackgroundScheduler created
Start ==
    /\ _config' = Some(config)
    /\ _scheduler' = Some([ running |-> TRUE, jobs |-> _schedule_jobs(config, {}) ])
    /\ lastOp' = "start"
    /\ UNCHANGED << entries, meetings, config, nextId, clock, sched_clock, due >>
    /\ UNCHANGED << matchVars, calVars, hdbVars, aggVars, parseVars, fileVars >>

\* stop(): shutdown and self._scheduler = None
Stop ==
    /\ _scheduler # None
    /\ _scheduler' = None
    /\ lastOp' = "stop"
    /\ UNCHANGED << entries, meetings, config, nextId, clock, _config, sched_clock, due >>
    /\ UNCHANGED << matchVars, calVars, hdbVars, aggVars, parseVars, fileVars >>

\* reschedule(cfg) on a running scheduler
reschedule(cfg, js) == _schedule_jobs(cfg, remove_all_jobs(js))

\* SettingsDialog._save_settings: save_schedule_config, then reschedule if
\* the scheduler is running
SaveSettings(cfg) ==
    /\ config' = cfg
    /\ IF is_running
       THEN /\ _config' = Some(cfg)
            /\ _scheduler' = Some([ _scheduler[1] EXCEPT !.jobs = reschedule(cfg, @) ])
       ELSE UNCHANGED << _config, _scheduler >>
    /\ lastOp' = "save_settings"
    /\ UNCHANGED << entries, meetings, nextId, clock, sched_clock, due >>
    /\ UNCHANGED << matchVars, calVars, hdbVars, aggVars, parseVars, fileVars >>

\* TimeEntryPopup._snooze: snooze_morning() or snooze_afternoon()
Snooze(session) ==
    /\ _scheduler # None
    /\ _scheduler' = Some([ _scheduler[1] EXCEPT
                              !.jobs = _schedule_snooze(@, session, MinuteAt(sched_clock)) ])
    /\ lastOp' = IF session = "morning" THEN "snooze_morning" ELSE "snooze_afternoon"
    /\ UNCHANGED << entries, meetings, config, nextId, clock, _config, sched_clock, due >>
    /\ UNCHANGED << matchVars, calVars, hdbVars, aggVars, parseVars, fileVars >>

\* the jobs that run when the time of a weekday reaches minute at
FiringAt(js, at) ==
    { j \in js : \/ j.trigger = "cron" /\ 60 * j.hour + j.minute = at
                 \/ j.trigger = "date" /\ j.run_date <= at }

\* time passes to the next step: the due jobs of a running scheduler emit
\* their popup signal, and a date job is removed once it has run
Tick ==
    LET at == MinuteAt(sched_clock + 1)
        fired == IF is_running THEN FiringAt(Jobs, at) ELSE {}
    IN  /\ sched_clock < MaxTicks
        /\ sched_clock' = sched_clock + 1
        /\ due' = { j.session : j \in fired }
        /\ _scheduler' = IF _scheduler = None THEN None
                         ELSE Some([ _scheduler[1] EXCEPT
                                 !.jobs = @ \ { j \in fired : j.trigger = "date" } ])
        /\ lastOp' = "tick"
        /\ UNCHANGED << entries, meetings, config, nextId, clock, _config >>
        /\ UNCHANGED << matchVars, calVars, hdbVars, aggVars, parseVars, fileVars >>

(***************************************************************************)
(* Specifications                                                          *)
(***************************************************************************)
\* a project table and an event; every other component as constructed
InitMatch ==
    /\ projects \in ProjectTables
    /\ event \in [ subject : Subjects, description : Descriptions ]
    /\ result = NoMatch
    /\ mpc = "idle"
    /\ entries = << >>
    /\ meetings = << >>
    /\ config = DefaultConfig
    /\ nextId = 0
    /\ clock = 0
    /\ lastOp = "none"
    /\ holidays = HOLIDAYS_2026
    /\ holiday_map = HolidayMapOf(HOLIDAYS_2026)
    /\ loaded = None
    /\ holiday_rows = << >>
    /\ holiday_seq = 0
    /\ recent = NoSaves
    /\ sheet = << >>
    /\ parse_out = NotParsed
    /\ export_files = NoFiles
    /\ download = << >>
    /\ _scheduler = None
    /\ _config = None
    /\ sched_clock = 1
    /\ due = {}
    /\ user_settings = DefaultSettings
    /\ events = << >>
    /\ generated = NotRun
    /\ X = << >>
    /\ out = NotRun
    /\ out2 = NotRun
    /\ apc = "build"

SpecMatch == InitMatch /\ [][MatchEvent]_vars

\* an empty store (get_holiday_service() holds HolidayService())
InitStatus ==
    /\ projects = StoreProjects
    /\ event = NoEvent
    /\ result = NoMatch
    /\ mpc = "idle"
    /\ entries = << >>
    /\ meetings = << >>
    /\ config = DefaultConfig
    /\ nextId = 0
    /\ clock = 0
    /\ lastOp = "none"
    /\ holidays = HOLIDAYS_2026
    /\ holiday_map = HolidayMapOf(HOLIDAYS_2026)
    /\ loaded = None
    /\ holiday_rows = << >>
    /\ holiday_seq = 0
    /\ recent = NoSaves
    /\ sheet = << >>
    /\ parse_out = NotParsed
    /\ export_files = NoFiles
    /\ download = << >>
    /\ _scheduler = None
    /\ _config = None
    /\ sched_clock = 1
    /\ due = {}
    /\ user_settings = DefaultSettings
    /\ events = << >>
    /\ generated = NotRun
    /\ X = << >>
    /\ out = NotRun
    /\ out2 = NotRun
    /\ apc = "build"

\* the shell's operations on stored entries
NextStatus ==
    \/ \E h \in EntryHours : AddEntry(Today, h)
    \/ \E ids \in (SUBSET EntryIds) \ { {} } : ApproveEntries(ids)
    \/ \E ids \in (SUBSET EntryIds) \ { {} } : MarkEntriesExported(ids)
    \/ \E id \in EntryIds : DeleteEntry(id)

SpecStatus == InitStatus /\ [][NextStatus]_vars

\* an empty store under one of the schedule configs
InitMeetings ==
    /\ projects = StoreProjects
    /\ event = NoEvent
    /\ result = NoMatch
    /\ mpc = "idle"
    /\ entries = << >>
    /\ meetings = << >>
    /\ config \in Configs
    /\ nextId = 0
    /\ clock = 0
    /\ lastOp = "none"
    /\ holidays = HOLIDAYS_2026
    /\ holiday_map = HolidayMapOf(HOLIDAYS_2026)
    /\ loaded = None
    /\ holiday_rows = << >>
    /\ holiday_seq = 0
    /\ recent = NoSaves
    /\ sheet = << >>
    /\ parse_out = NotParsed
    /\ export_files = NoFiles
    /\ download = << >>
    /\ _scheduler = None
    /\ _config = None
    /\ sched_clock = 1
    /\ due = {}
    /\ user_settings = DefaultSettings
    /\ events = << >>
    /\ generated = NotRun
    /\ X = << >>
    /\ out = NotRun
    /\ out2 = NotRun
    /\ apc = "build"

\* the popup's operations and the Outlook sync
NextMeetings ==
    \/ \E d \in Dates, h \in EntryHours : AddEntry(d, h)
    \/ SyncOutlook
    \/ \E session \in Sessions :
         \E checked \in (SUBSET ListedIds(session)) \ { {} } :
             ImportSelectedMeetings(session, checked)

SpecMeetings == InitMeetings /\ [][NextMeetings]_vars

\* the default schedule and an empty store
InitConfig ==
    /\ projects = StoreProjects
    /\ event = NoEvent
    /\ result = NoMatch
    /\ mpc = "idle"
    /\ entries = << >>
    /\ meetings = << >>
    /\ config = DefaultConfig
    /\ nextId = 0
    /\ clock = 0
    /\ lastOp = "none"
    /\ holidays = HOLIDAYS_2026
    /\ holiday_map = HolidayMapOf(HOLIDAYS_2026)
    /\ loaded = None
    /\ holiday_rows = << >>
    /\ holiday_seq = 0
    /\ recent = NoSaves
    /\ sheet = << >>
    /\ parse_out = NotParsed
    /\ export_files = NoFiles
    /\ download = << >>
    /\ _scheduler = None
    /\ _config = None
    /\ sched_clock = 1
    /\ due = {}
    /\ user_settings = DefaultSettings
    /\ events = << >>
    /\ generated = NotRun
    /\ X = << >>
    /\ out = NotRun
    /\ out2 = NotRun
    /\ apc = "build"

\* the settings are saved and entries are recorded
NextConfig ==
    \/ \E cfg \in ConfigChoices : SaveScheduleConfig(cfg)
    \/ \E d \in Dates, h \in EntryHours : AddEntry(d, h)

SpecConfig == InitConfig /\ [][NextConfig]_vars

\* an empty store and no export file
InitExport ==
    /\ projects = StoreProjects
    /\ event = NoEvent
    /\ result = NoMatch
    /\ mpc = "idle"
    /\ entries = << >>
    /\ meetings = << >>
    /\ config = DefaultConfig
    /\ nextId = 0
    /\ clock = 0
    /\ lastOp = "none"
    /\ holidays = HOLIDAYS_2026
    /\ holiday_map = HolidayMapOf(HOLIDAYS_2026)
    /\ loaded = None
    /\ holiday_rows = << >>
    /\ holiday_seq = 0
    /\ recent = NoSaves
    /\ sheet = << >>
    /\ parse_out = NotParsed
    /\ export_files = NoFiles
    /\ download = << >>
    /\ _scheduler = None
    /\ _config = None
    /\ sched_clock = 1
    /\ due = {}
    /\ user_settings = DefaultSettings
    /\ events = << >>
    /\ generated = NotRun
    /\ X = << >>
    /\ out = NotRun
    /\ out2 = NotRun
    /\ apc = "build"

\* entries are recorded and exported from the popup and from the main window
NextExport ==
    \/ \E d \in Dates, h \in EntryHours : AddEntry(d, h)
    \/ ExportToday
    \/ \E month_data \in ExportMonths : ExportEntries(month_data)

SpecExport == InitExport /\ [][NextExport]_vars

\* an empty store and nothing downloaded
InitDashboard ==
    /\ projects = StoreProjects
    /\ event = NoEvent
    /\ result = NoMatch
    /\ mpc = "idle"
    /\ entries = << >>
    /\ meetings = << >>
    /\ config = DefaultConfig
    /\ nextId = 0
    /\ clock = 0
    /\ lastOp = "none"
    /\ holidays = HOLIDAYS_2026
    /\ holiday_map = HolidayMapOf(HOLIDAYS_2026)
    /\ loaded = None
    /\ holiday_rows = << >>
    /\ holiday_seq = 0
    /\ recent = NoSaves
    /\ sheet = << >>
    /\ parse_out = NotParsed
    /\ export_files = NoFiles
    /\ download = << >>
    /\ _scheduler = None
    /\ _config = None
    /\ sched_clock = 1
    /\ due = {}
    /\ user_settings = DefaultSettings
    /\ events = << >>
    /\ generated = NotRun
    /\ X = << >>
    /\ out = NotRun
    /\ out2 = NotRun
    /\ apc = "build"

\* entries are recorded and downloaded from the dashboard
NextDashboard ==
    \/ \E d \in Dates, h \in EntryHours : AddEntry(d, h)
    \/ \E aggregate \in BOOLEAN : DownloadExcel(aggregate)

SpecDashboard == InitDashboard /\ [][NextDashboard]_vars

\* the default schedule in the store and a SchedulerManager not yet started
InitScheduler ==
    /\ projects = StoreProjects
    /\ event = NoEvent
    /\ result = NoMatch
    /\ mpc = "idle"
    /\ entries = << >>
    /\ meetings = << >>
    /\ config = DefaultConfig
    /\ nextId = 0
    /\ clock = 0
    /\ lastOp = "none"
    /\ holidays = HOLIDAYS_2026
    /\ holiday_map = HolidayMapOf(HOLIDAYS_2026)
    /\ loaded = None
    /\ holiday_rows = << >>
    /\ holiday_seq = 0
    /\ recent = NoSaves
    /\ sheet = << >>
    /\ parse_out = NotParsed
    /\ export_files = NoFiles
    /\ download = << >>
    /\ _scheduler = None
    /\ _config = None
    /\ sched_clock = 1
    /\ due = {}
    /\ user_settings = DefaultSettings
    /\ events = << >>
    /\ generated = NotRun
    /\ X = << >>
    /\ out = NotRun
    /\ out2 = NotRun
    /\ apc = "build"

\* the desktop shell starts and stops the scheduler, the settings are saved,
\* popups are snoozed and time passes
NextScheduler ==
    \/ Start
    \/ Stop
    \/ \E cfg \in PopupConfigs : SaveSettings(cfg)
    \/ \E session \in Sessions : Snooze(session)
    \/ Tick

SpecScheduler == InitScheduler /\ [][NextScheduler]_vars

\* HolidayService(), as get_holiday_service() creates it
InitCalendar ==
    /\ projects = << >>
    /\ event = NoEvent
    /\ result = NoMatch
    /\ mpc = "idle"
    /\ entries = << >>
    /\ meetings = << >>
    /\ config = DefaultConfig
    /\ nextId = 0
    /\ clock = 0
    /\ lastOp = "none"
    /\ holidays = HOLIDAYS_2026
    /\ holiday_map = HolidayMapOf(HOLIDAYS_2026)
    /\ loaded = None
    /\ holiday_rows = << >>
    /\ holiday_seq = 0
    /\ recent = NoSaves
    /\ sheet = << >>
    /\ parse_out = NotParsed
    /\ export_files = NoFiles
    /\ download = << >>
    /\ _scheduler = None
    /\ _config = None
    /\ sched_clock = 1
    /\ due = {}
    /\ user_settings = DefaultSettings
    /\ events = << >>
    /\ generated = NotRun
    /\ X = << >>
    /\ out = NotRun
    /\ out2 = NotRun
    /\ apc = "build"

NextCalendar == \E given \in HolidayLists : NewHolidayService(given)

SpecCalendar == InitCalendar /\ [][NextCalendar]_vars

\* a store without projects and entries
InitProjects ==
    /\ projects = << >>
    /\ event = NoEvent
    /\ result = NoMatch
    /\ mpc = "idle"
    /\ entries = << >>
    /\ meetings = << >>
    /\ config = DefaultConfig
    /\ nextId = 0
    /\ clock = 0
    /\ lastOp = "none"
    /\ holidays = HOLIDAYS_2026
    /\ holiday_map = HolidayMapOf(HOLIDAYS_2026)
    /\ loaded = None
    /\ holiday_rows = << >>
    /\ holiday_seq = 0
    /\ recent = NoSaves
    /\ sheet = << >>
    /\ parse_out = NotParsed
    /\ export_files = NoFiles
    /\ download = << >>
    /\ _scheduler = None
    /\ _config = None
    /\ sched_clock = 1
    /\ due = {}
    /\ user_settings = DefaultSettings
    /\ events = << >>
    /\ generated = NotRun
    /\ X = << >>
    /\ out = NotRun
    /\ out2 = NotRun
    /\ apc = "build"

NextProjects ==
    \/ \E form \in ProjectForms : AddProject(form)
    \/ \E id \in ProjectIds, edit \in ProjectEdits : UpdateProject(id, edit)
    \/ \E id \in ProjectIds : DeleteProject(id)
    \/ \E id \in ProjectIds : AddProjectEntry(id, 1)
    \/ \E ev \in LaterEvents : MatchLater(ev)

SpecProjects == InitProjects /\ [][NextProjects]_vars

\* no file parsed yet
InitParse ==
    /\ projects = << >>
    /\ event = NoEvent
    /\ result = NoMatch
    /\ mpc = "idle"
    /\ entries = << >>
    /\ meetings = << >>
    /\ config = DefaultConfig
    /\ nextId = 0
    /\ clock = 0
    /\ lastOp = "none"
    /\ holidays = HOLIDAYS_2026
    /\ holiday_map = HolidayMapOf(HOLIDAYS_2026)
    /\ loaded = None
    /\ holiday_rows = << >>
    /\ holiday_seq = 0
    /\ recent = NoSaves
    /\ sheet = << >>
    /\ parse_out = NotParsed
    /\ export_files = NoFiles
    /\ download = << >>
    /\ _scheduler = None
    /\ _config = None
    /\ sched_clock = 1
    /\ due = {}
    /\ user_settings = DefaultSettings
    /\ events = << >>
    /\ generated = NotRun
    /\ X = << >>
    /\ out = NotRun
    /\ out2 = NotRun
    /\ apc = "build"

NextParse ==
    \E table \in SeqsUpTo(RowChoices, MaxRows) \ { << >> }, skip \in BOOLEAN : Parse(table, skip)

SpecParse == InitParse /\ [][NextParse]_vars

\* an empty table holidays and the default holiday service
InitHolidays ==
    /\ projects = << >>
    /\ event = NoEvent
    /\ result = NoMatch
    /\ mpc = "idle"
    /\ entries = << >>
    /\ meetings = << >>
    /\ config = DefaultConfig
    /\ nextId = 0
    /\ clock = 0
    /\ lastOp = "none"
    /\ holidays = HOLIDAYS_2026
    /\ holiday_map = HolidayMapOf(HOLIDAYS_2026)
    /\ loaded = None
    /\ holiday_rows = << >>
    /\ holiday_seq = 0
    /\ recent = NoSaves
    /\ sheet = << >>
    /\ parse_out = NotParsed
    /\ export_files = NoFiles
    /\ download = << >>
    /\ _scheduler = None
    /\ _config = None
    /\ sched_clock = 1
    /\ due = {}
    /\ user_settings = DefaultSettings
    /\ events = << >>
    /\ generated = NotRun
    /\ X = << >>
    /\ out = NotRun
    /\ out2 = NotRun
    /\ apc = "build"

NextHolidays ==
    \/ \E t \in HolidayTuples, f \in SourceFiles : SaveHoliday(t[1], t[2], t[3], f)
    \/ \E b \in HolidayBatches, f \in SourceFiles : SaveHolidaysBatch(b, f)
    \/ \E id \in 1..MaxSaves : DeleteHoliday(id)
    \/ \E f \in SourceFiles : DeleteHolidaysBySource(f)
    \/ ClearAllHolidays
    \/ \E hs \in RowLists : NewHolidayService(Some(hs))

SpecHolidays == InitHolidays /\ [][NextHolidays]_vars

\* an empty list of entries
InitAgg ==
    /\ projects = StoreProjects
    /\ event = NoEvent
    /\ result = NoMatch
    /\ mpc = "idle"
    /\ entries = << >>
    /\ meetings = << >>
    /\ config = DefaultConfig
    /\ nextId = 0
    /\ clock = 0
    /\ lastOp = "none"
    /\ holidays = HOLIDAYS_2026
    /\ holiday_map = HolidayMapOf(HOLIDAYS_2026)
    /\ loaded = None
    /\ holiday_rows = << >>
    /\ holiday_seq = 0
    /\ recent = NoSaves
    /\ sheet = << >>
    /\ parse_out = NotParsed
    /\ export_files = NoFiles
    /\ download = << >>
    /\ _scheduler = None
    /\ _config = None
    /\ sched_clock = 1
    /\ due = {}
    /\ user_settings = DefaultSettings
    /\ events = << >>
    /\ generated = NotRun
    /\ X = << >>
    /\ out = NotRun
    /\ out2 = NotRun
    /\ apc = "build"

NextAgg ==
    \/ \E call \in ManualCalls : CreateManualEntry(call[1], call[2])
    \/ \E batch \in EventBatches : GenerateEntries(batch)
    \/ AggregateEntries
    \/ AggregateAgain

SpecAgg == InitAgg /\ [][NextAgg]_vars

\* runs of generate_entries_from_events over a project table and settings
InitGenerate ==
    /\ projects \in GenerateTables
    /\ event = NoEvent
    /\ result = NoMatch
    /\ mpc = "idle"
    /\ entries = << >>
    /\ meetings = << >>
    /\ config = DefaultConfig
    /\ nextId = 0
    /\ clock = 0
    /\ lastOp = "none"
    /\ holidays = HOLIDAYS_2026
    /\ holiday_map = HolidayMapOf(HOLIDAYS_2026)
    /\ loaded = None
    /\ holiday_rows = << >>
    /\ holiday_seq = 0
    /\ recent = NoSaves
    /\ sheet = << >>
    /\ parse_out = NotParsed
    /\ export_files = NoFiles
    /\ download = << >>
    /\ _scheduler = None
    /\ _config = None
    /\ sched_clock = 1
    /\ due = {}
    /\ user_settings \in SettingsChoices
    /\ events = << >>
    /\ generated = NotRun
    /\ X = << >>
    /\ out = NotRun
    /\ out2 = NotRun
    /\ apc = "build"

NextGenerate == \E batch \in EventBatches : GenerateEntriesFromEvents(batch)

SpecGenerate == InitGenerate /\ [][NextGenerate]_vars

(***************************************************************************)
(* Claims about matching (SpecMatch)                                       *)
(***************************************************************************)
\* the keys a reader finds in /browse/<KEY> URLs of a text, whatever the case
\* in which the URL is written
UrlKeysIn(text) ==
    IF text = << >> THEN << >> ELSE FindUrlKeys(Upper(BrowsePrefix), Upper(text), 1)

DescriptionText == IF event.description = None THEN << >> ELSE event.description[1]

SubjectHit  == FirstResolved(projects, _extract_jira_keys(event.subject), << >>)
UrlHit      == FirstResolved(projects, UrlKeysIn(DescriptionText), << >>)
PlainHit    == FirstResolved(projects, _extract_jira_keys(DescriptionText),
                             _extract_jira_keys(event.subject))

ResultIs(hit) ==
    /\ result.project_id = Some(hit[1][1].id)
    /\ result.matched_text = Some(hit[1][2])

\* C1: the steps are tried in priority order and the first hit wins: a key of
\* the subject that resolves outranks every key of the description, a
\* resolvable key of a /browse/<KEY> URL of the description outranks a
\* resolvable plain key of the description, and a resolvable key outranks
\* every keyword.
C1_PriorityOrder ==
    mpc = "matched" =>
        /\ SubjectHit # None => ResultIs(SubjectHit)
        /\ (SubjectHit = None /\ UrlHit # None) => ResultIs(UrlHit)
        /\ (SubjectHit # None \/ UrlHit # None \/ PlainHit # None)
              => result.match_source # "keyword"

SourceTags == { "jira_key", "description_url", "description", "keyword", "none" }

\* C10: a match through an issue key of the subject has confidence 1.0, source
\* tag jira_key and the key as matched_text, and every result carries one of
\* the five source tags.
C10_SubjectMatchTag ==
    mpc = "matched" =>
        /\ result.match_source \in SourceTags
        /\ SubjectHit # None =>
              /\ RatEq(result.confidence, One)
              /\ result.match_source = "jira_key"
              /\ result.matched_text = Some(SubjectHit[1][2])

\* the contained keywords that can win: positions in the iteration order
ContainedPairs ==
    LET pairs == KeywordPairs(projects)
    IN  { n \in 1..Len(pairs) :
            /\ Len(pairs[n].keyword) > 0
            /\ Contains(Lower(pairs[n].keyword), Lower(event.subject)) }

\* min(0.8, len(keyword)/len(subject) + 0.3), computed without the loop
CappedScore(keyword) ==
    IF 10 * Len(keyword) + 3 * Len(event.subject) >= 8 * Len(event.subject)
    THEN << 8, 10 >>
    ELSE << 10 * Len(keyword) + 3 * Len(event.subject), 10 * Len(event.subject) >>

NoKeyHit ==
    /\ SubjectHit = None
    /\ PlainHit = None
    /\ FirstResolved(projects, _extract_jira_keys_from_urls(DescriptionText), << >>) = None

KeywordResultIs(n) ==
    LET pr == KeywordPairs(projects)[n]
    IN  /\ result.match_source = "keyword"
        /\ result.project_id = Some(pr.project.id)
        /\ result.matched_text = Some(pr.keyword)
        /\ RatEq(result.confidence, CappedScore(pr.keyword))

\* C9 as stated: the returned pair is the one with the highest capped score,
\* and among pairs of equal capped score (the pairs at the 0.8 cap among
\* them) the one encountered first.
C9_FirstOfHighestCapped ==
    (mpc = "matched" /\ NoKeyHit /\ ContainedPairs # {}) =>
        LET pairs == KeywordPairs(projects)
            best == CHOOSE n \in ContainedPairs :
                      \A m \in ContainedPairs :
                        \/ RatLess(CappedScore(pairs[m].keyword),
                                   CappedScore(pairs[n].keyword))
                        \/ /\ RatEq(CappedScore(pairs[m].keyword),
                                    CappedScore(pairs[n].keyword))
                           /\ n <= m
        IN  KeywordResultIs(best)

\* C9, amended: the returned pair is the one with the longest contained
\* keyword (the highest len(keyword)/len(subject)), the first encountered
\* among those of that length, and its confidence is the capped score; with
\* no contained non-empty keyword there is no keyword match.
C9_FirstOfLongest ==
    (mpc = "matched" /\ NoKeyHit) =>
        IF ContainedPairs = {} THEN result = NoMatch
        ELSE LET pairs == KeywordPairs(projects)
                 best == CHOOSE n \in ContainedPairs :
                           \A m \in ContainedPairs :
                             \/ Len(pairs[m].keyword) < Len(pairs[n].keyword)
                             \/ /\ Len(pairs[m].keyword) = Len(pairs[n].keyword)
                                /\ n <= m
             IN  KeywordResultIs(best)

\* a keyword match among two contained keywords of different length that both
\* reach the cap, the shorter one encountered first
C9_Witness ==
    /\ mpc = "matched"
    /\ result.match_source = "keyword"
    /\ LET pairs == KeywordPairs(projects)
       IN  \E n, m \in ContainedPairs :
             /\ n < m
             /\ Len(pairs[n].keyword) < Len(pairs[m].keyword)
             /\ CappedScore(pairs[n].keyword) = << 8, 10 >>
             /\ result.matched_text = Some(pairs[m].keyword)

(***************************************************************************)
(* Claims about the hour suggestion and the meeting import (SpecMeetings)  *)
(***************************************************************************)
SessionInfo(d, session) == get_session_info(entries, meetings, config, d, session)
Suggestion(d, session) == suggest_hours(entries, meetings, config, d, session)

SameCalendarMeeting(m1, m2) ==
    /\ m1.subject = m2.subject
    /\ m1.date = m2.date
    /\ m1.start_minute = m2.start_minute
    /\ m1.end_minute = m2.end_minute

\* the entries of etable that originate from the calendar meeting of row m,
\* going by the rows of mtable
EntriesFrom(etable, mtable, m) ==
    { id \in { etable[k].id : k \in 1..Len(etable) } :
        \E i \in 1..Len(mtable) :
            /\ SameCalendarMeeting(mtable[i], m)
            /\ mtable[i].imported_entry_id = Some(id) }

\* C5: once a calendar meeting has been converted into an entry and marked
\* imported, no later sync or import creates a second entry for it: the
\* stored entries that originate from that meeting stay the one there is.
C5_NoSecondEntry ==
    [][ \A i \in 1..Len(meetings) :
          LET before == EntriesFrom(entries, meetings, meetings[i])
          IN  before # {}
                => EntriesFrom(entries', meetings', meetings[i]) \subseteq before ]_vars

(***************************************************************************)
(* Claims about the status of entries (SpecStatus)                         *)
(***************************************************************************)
StatusRank(status) ==
    CASE status = "draft" -> 0
      [] status = "pending_review" -> 1
      [] status = "approved" -> 2
      [] status = "exported" -> 3

\* C4: over any sequence of save_entry, approve_entries and
\* mark_entries_exported, the status of a stored entry only moves forward in
\* the order draft, pending_review, approved, exported.
C4_StatusOnlyAdvances ==
    [][ \A i \in 1..Len(entries) : \A j \in 1..Len(entries') :
          entries[i].id = entries'[j].id
              => StatusRank(entries'[j].status) >= StatusRank(entries[i].status) ]_vars

(***************************************************************************)
(* Claims about the holiday calendar (SpecCalendar)                        *)
(***************************************************************************)
SaturdayOrSunday(d) == weekday(d) = 5 \/ weekday(d) = 6
FullHoliday(d) == d \in DOMAIN holiday_map /\ holiday_map[d].holiday_type = "full_day"
HalfHoliday(d) == d \in DOMAIN holiday_map /\ holiday_map[d].holiday_type = "half_day"

\* C6: for every date d and every holiday table, expected_hours(d) is 0 if d
\* is a Saturday or Sunday or a full-day holiday, otherwise 4 if d is a
\* half-day holiday, otherwise 8; so it is in {0, 4, 8} and is 0 exactly on
\* weekend days and full holidays, and a half-day holiday on a weekday is a
\* workday of 4 hours.
C6_ExpectedHours ==
    \A d \in YearDates :
        LET hours == get_expected_hours(holiday_map, d)
        IN  /\ hours = IF SaturdayOrSunday(d) \/ FullHoliday(d) THEN 0
                       ELSE IF HalfHoliday(d) THEN 4
                       ELSE 8
            /\ hours \in { 0, 4, 8 }
            /\ hours = 0 <=> (SaturdayOrSunday(d) \/ FullHoliday(d))
            /\ (HalfHoliday(d) /\ ~SaturdayOrSunday(d))
                  => (hours = 4 /\ is_workday(holiday_map, d))

\* a table given to the constructor in which Saturday 21 March is a half-day
\* holiday and Thursday 19 March a half-day holiday of 4 hours
C6_Witness ==
    /\ Len(holidays) <= MaxHolidays
    /\ HalfHoliday(80) /\ SaturdayOrSunday(80)
    /\ HalfHoliday(78) /\ ~SaturdayOrSunday(78)
    /\ get_expected_hours(holiday_map, 78) = 4
    /\ is_workday(holiday_map, 78)
    /\ get_expected_hours(holiday_map, 80) = 0

(***************************************************************************)
(* Claims about the entries the engine builds and aggregates (SpecAgg)     *)
(***************************************************************************)
TotalHours(es) == SumSeq([ i \in 1..Len(es) |-> es[i].hours ])

Built == { X[i] : i \in 1..Len(X) }
AggregatedOnce == { out.entries[i] : i \in 1..Len(out.entries) }
AggregatedTwice == { out2.entries[i] : i \in 1..Len(out2.entries) }

\* C3: every TimesheetEntry that generate_entries_from_events,
\* create_manual_entry and aggregate_entries (of valid entries) construct or
\* return has integer hours with 1 <= hours <= 24.
C3_HoursInRange ==
    \A e \in Built \cup AggregatedOnce \cup AggregatedTwice :
        e.hours \in Int /\ 1 <= e.hours /\ e.hours <= 24

\* C7: the hours of aggregate(X) sum to the total of X, and
\* aggregate(aggregate(X)) has the same total hours as aggregate(X).
C7_TotalPreserved ==
    /\ apc \in { "once", "twice" }
          => (~out.raised /\ TotalHours(out.entries) = TotalHours(X))
    /\ apc = "twice"
          => (~out2.raised /\ TotalHours(out2.entries) = TotalHours(out.entries))

\* the grouping key as the contract words it, an absent project name or
\* ticket number counting as the empty one
Key(e) ==
    << e.entry_date,
       IF e.project_name = None THEN "" ELSE e.project_name[1],
       IF e.ticket_number = None THEN "" ELSE e.ticket_number[1],
       e.activity_code >>

\* the distinct keys of a list in the order of their first occurrence
RECURSIVE FirstKeys(_, _, _)
FirstKeys(es, n, acc) ==
    IF n > Len(es) THEN acc
    ELSE IF \E i \in 1..Len(acc) : acc[i] = Key(es[n])
         THEN FirstKeys(es, n + 1, acc)
         ELSE FirstKeys(es, n + 1, Append(acc, Key(es[n])))

HoursOfKey(es, key) ==
    SumSeq([ i \in 1..Len(es) |-> IF Key(es[i]) = key THEN es[i].hours ELSE 0 ])

OnePerKey(input, output) ==
    LET keys == FirstKeys(input, 1, << >>)
    IN  /\ Len(output) = Len(keys)
        /\ \A i \in 1..Len(keys) :
              /\ Key(output[i]) = keys[i]
              /\ output[i].hours = HoursOfKey(input, keys[i])

MinuteOfDay(t) ==
    (10 * DigitVal(t[1]) + DigitVal(t[2])) * 60 + 10 * DigitVal(t[4]) + DigitVal(t[5])

WindowStart(session) ==
    MinuteOfDay(IF session = "morning" THEN config.workday_start ELSE config.lunch_end)
WindowEnd(session) ==
    MinuteOfDay(IF session = "morning" THEN config.lunch_start ELSE config.workday_end)

\* the cached rows of the date that are not marked imported and start in the
\* half-open window of the session
PendingRows(d, session) ==
    SelectSeq(meetings, LAMBDA m :
        /\ m.date = d
        /\ ~m.is_imported
        /\ WindowStart(session) <= m.start_minute
        /\ m.start_minute < WindowEnd(session))

\* max(1, round(duration in hours)) of a meeting of whole minutes
WholeHours(m) == Max(1, RoundHalfEven(m.end_minute - m.start_minute, 60))

PendingHours(d, session) ==
    LET rows == PendingRows(d, session)
    IN  SumSeq([ i \in 1..Len(rows) |-> WholeHours(rows[i]) ])

\* C11: the pending meeting hours of a session are the sum of
\* max(1, round(duration in hours)) over exactly the cached meetings of the
\* date that are not marked imported and start in the half-open window of
\* the session; a meeting that starts at lunch_start or during the lunch
\* break counts for neither session, an imported one for none; with target 3,
\* logged 1 and one pending meeting of 90 minutes the pending hours are 2,
\* the remaining hours 2 and the suggestion 1.
C11_PendingMeetingHours ==
    /\ \A d \in Dates, session \in Sessions :
          SessionInfo(d, session).meeting_hours = PendingHours(d, session)
    /\ \A i \in 1..Len(meetings) :
          (\/ meetings[i].is_imported
           \/ /\ meetings[i].start_minute >= MinuteOfDay(config.lunch_start)
              /\ meetings[i].start_minute < MinuteOfDay(config.lunch_end))
             => \A session \in Sessions :
                  SessionInfo(meetings[i].date, session).meeting_hours
                    = LET others == SelectSeq(PendingRows(meetings[i].date, session),
                                              LAMBDA m : m.id # meetings[i].id)
                      IN  SumSeq([ k \in 1..Len(others) |-> WholeHours(others[k]) ])
    /\ \A d \in Dates, session \in Sessions :
          LET info == SessionInfo(d, session)
              rows == PendingRows(d, session)
          IN  (/\ info.target_hours = 3
               /\ info.logged_hours = 1
               /\ Len(rows) = 1
               /\ rows[1].end_minute - rows[1].start_minute = 90)
                 => /\ info.meeting_hours = 2
                    /\ info.remaining_hours = 2
                    /\ Suggestion(d, session) = 1

\* a morning with an imported row and a pending row of the 90-minute meeting
\* and with a row that starts at lunch_start: the pending hours are those of
\* the one pending row
C11_Witness ==
    /\ \E i, j, k \in 1..Len(meetings) :
          /\ meetings[i].is_imported /\ meetings[i].start_minute = 600
          /\ ~meetings[j].is_imported /\ meetings[j].start_minute = 600
          /\ ~meetings[k].is_imported
          /\ meetings[k].start_minute = MinuteOfDay(config.lunch_start)
    /\ SessionInfo(Today, "morning").meeting_hours = 2
    /\ SessionInfo(Today, "afternoon").meeting_hours > 0

(***************************************************************************)
(* Claims about the entries generated from events (SpecGenerate)           *)
(***************************************************************************)
\* duration in hours (counted in hundredths) below the minimum in minutes / 60
TooShort(ev) == 3 * ev.duration_hours < 5 * user_settings.min_meeting_duration_minutes

LongEnough == SelectSeq(events, LAMBDA ev : ~TooShort(ev))

\* C12: generate_entries produces no entry for an event whose duration in
\* hours is below min_meeting_duration_minutes / 60 and exactly one draft
\* entry, in input order, for every other event of the batch, an event of
\* exactly the minimum included.
C12_OneEntryPerLongEnoughEvent ==
    events # << >> =>
        /\ ~generated.raised
        /\ Len(generated.entries) = Len(LongEnough)
        /\ \A i \in 1..Len(LongEnough) :
              /\ generated.entries[i].source_event_id = Some(LongEnough[i].id)
              /\ generated.entries[i].status = "draft"

\* the event of the batch an entry was generated from
EventOf(entry) == CHOOSE ev \in { events[i] : i \in 1..Len(events) } :
                      entry.source_event_id = Some(ev.id)

\* C13: the draft entry generated from an event that was matched to a project
\* carries that project's name and ticket number; the entry of an unmatched
\* event has neither.
C13_ProjectNameAndTicket ==
    \A i \in 1..Len(generated.entries) :
        LET entry == generated.entries[i]
            match == match_event(projects, EventOf(entry))
        IN  IF match.project_id # None
            THEN /\ entry.project_name = match.project_name
                 /\ entry.ticket_number = match.ticket_numeric_id
            ELSE /\ entry.project_name = None
                 /\ entry.ticket_number = None

(***************************************************************************)
(* Claims about the export timestamp (SpecStatus)                          *)
(***************************************************************************)
\* C14: exported_at of a stored entry is absent until the entry first becomes
\* exported, is set at that transition, and is afterwards never cleared or
\* overwritten by any operation, a repeated export of the same entry included.
C14_ExportedAtSetOnce ==
    [][ \A i \in 1..Len(entries) : \A j \in 1..Len(entries') :
          entries[i].id = entries'[j].id
              => /\ (entries[i].exported_at = None /\ entries'[j].exported_at # None)
                        => (entries[i].status # "exported" /\ entries'[j].status = "exported")
                 /\ (entries[i].status # "exported" /\ entries'[j].status = "exported")
                        => entries'[j].exported_at # None
                 /\ entries[i].exported_at # None
                        => entries'[j].exported_at = entries[i].exported_at ]_vars

(***************************************************************************)
(* Claims about loading holiday sets (SpecCalendar, SpecHolidays)          *)
(***************************************************************************)
DatesOf(hs) == { hs[i].date : i \in 1..Len(hs) }

\* C15: loading a new holiday set into the work calendar fully replaces its
\* lookup table: afterwards exactly the dates of the new set are holidays, a
\* weekday outside the new set has expected hours 8 again, and after a load of
\* the empty set ("clear all") the table is empty; the calendar never falls
\* back to a built-in default set.
C15_LoadReplacesTable ==
    loaded # None =>
        /\ DOMAIN holiday_map = DatesOf(loaded[1])
        /\ \A d \in YearDates :
              (d \notin DatesOf(loaded[1]) /\ ~SaturdayOrSunday(d))
                  => get_expected_hours(holiday_map, d) = 8
        /\ loaded[1] = << >> => holiday_map = << >>

RowsOf(d) == { i \in 1..Len(holiday_rows) : holiday_rows[i].holiday_date = d }

\* C16: after any sequence of save_holiday, save_holidays_batch,
\* delete_holiday, delete_holidays_by_source and clear_all_holidays there is at
\* most one holiday record per date, and the record of a date has the name and
\* type of the most recent save for that date; the work calendar likewise
\* never reports two holidays for the same date.
C16_OneHolidayPerDate ==
    /\ \A d \in StoreDates : Cardinality(RowsOf(d)) <= 1
    /\ \A i \in 1..Len(holiday_rows) :
          recent[holiday_rows[i].holiday_date]
              = Some(<< holiday_rows[i].name, holiday_rows[i].holiday_type >>)
    /\ \A d \in YearDates : Len(get_holidays_in_range(holidays, d, d)) <= 1

(***************************************************************************)
(* Claims about saved and soft-deleted projects (SpecProjects)             *)
(***************************************************************************)
Deleted(table) == { table[i] : i \in { j \in 1..Len(table) : ~table[j].is_active } }
Active(table) == { table[i] : i \in { j \in 1..Len(table) : table[j].is_active } }
ActiveList == get_projects(projects, TRUE)

\* the match that just ran returned none of the soft-deleted projects
NoDeletedMatch ==
    lastOp = "match_event" => \A p \in Deleted(projects) : result.project_id # Some(p.id)

\* a soft-deleted project is retrievable by id and not in the active list
DeletedKept ==
    \A p \in Deleted(projects) :
        /\ get_project(projects, p.id) = Some(p)
        /\ \A i \in 1..Len(ActiveList) : ActiveList[i].id # p.id

\* a soft-deleted project stays soft-deleted
StaysDeleted ==
    \A p \in Deleted(projects) : \E q \in Deleted(projects') : q.id = p.id

\* C17: after delete_project no later match_event returns the project, by an
\* issue key in the subject or the description or by a keyword, and the
\* project's record stays in the store: retrievable by id, absent from the
\* active project list.
C17_DeletedNeverMatched == [](NoDeletedMatch /\ DeletedKept) /\ [][StaysDeleted]_vars

\* project Alpha (AB-1, keyword "sy") is deleted and the event "sync AB-1",
\* which holds its key and its keyword, was matched afterwards
C17_Witness ==
    /\ lastOp = "match_event"
    /\ event.subject = sStandup
    /\ \E p \in Deleted(projects) :
          /\ p.jira_key = Some(kAB1)
          /\ p.keywords = << wSy >>
          /\ result.project_id # Some(p.id)

\* C18: after any sequence of save_project and delete_project no two active
\* projects have the same issue key, so the project match_event returns for an
\* issue key is determined by the project set.
C18_UniqueActiveKey ==
    \A p \in Active(projects) : \A q \in Active(projects) :
        (p.jira_key # None /\ p.jira_key = q.jira_key) => p.id = q.id

\* C19: a stored entry keeps the project name and ticket number it was
\* created with: save_project, a rename or a changed ticket number included,
\* and delete_project leave every stored entry unchanged.
C19_EntriesKeepSnapshot ==
    [][ /\ lastOp' \in { "save_project", "delete_project" } => entries' = entries
        /\ \A i \in 1..Len(entries) : \A j \in 1..Len(entries') :
              entries[i].id = entries'[j].id
                  => /\ entries'[j].project_name = entries[i].project_name
                     /\ entries'[j].ticket_number = entries[i].ticket_number ]_vars

\* an entry whose project was renamed, given another ticket number or deleted
\* after the entry was stored
C19_Witness ==
    /\ lastOp \in { "save_project", "delete_project" }
    /\ \E i \in 1..Len(entries) :
          \A p \in Active(projects) :
              \/ Some(p.name) # entries[i].project_name
              \/ Some(p.ticket_number) # entries[i].ticket_number

(***************************************************************************)
(* Claims about the workdays of a month (SpecCalendar)                     *)
(***************************************************************************)
Months == 1..12
DaysIn(month) == IF month = 2 THEN 28 ELSE IF month \in { 4, 6, 9, 11 } THEN 30 ELSE 31

RECURSIVE FirstOf(_)
FirstOf(month) == IF month = 1 THEN 1 ELSE FirstOf(month - 1) + DaysIn(month - 1)

MonthDates(month) == FirstOf(month)..(FirstOf(month) + DaysIn(month) - 1)
WeekendDays(month) == { d \in MonthDates(month) : SaturdayOrSunday(d) }
FullHolidayDays(month) == { d \in MonthDates(month) : FullHoliday(d) }
Workdays(month) == { d \in MonthDates(month) : ~SaturdayOrSunday(d) /\ ~FullHoliday(d) }

\* the list holds exactly the workdays of the month, ascending, each with its
\* expected hours
ListsWorkdays(month) ==
    LET w == get_workdays_in_month(holiday_map, month)
    IN  /\ \A i \in 1..Len(w) : \A j \in 1..Len(w) : i < j => w[i][1] < w[j][1]
        /\ { w[i][1] : i \in 1..Len(w) } = Workdays(month)
        /\ \A d \in Workdays(month) : is_workday(holiday_map, d)
        /\ \A i \in 1..Len(w) : w[i][2] = get_expected_hours(holiday_map, w[i][1])

\* C20 as stated: get_workdays_in_month lists, in ascending date order,
\* exactly the dates of the month for which is_workday holds, each paired with
\* its expected hours, and the number of listed dates is the days of the month
\* minus its weekend days minus its full-holiday days, for every month and
\* every holiday table.
C20_CountMinusAllFullHolidays ==
    \A month \in Months :
        /\ ListsWorkdays(month)
        /\ Len(get_workdays_in_month(holiday_map, month))
              = DaysIn(month) - Cardinality(WeekendDays(month))
                              - Cardinality(FullHolidayDays(month))

\* C20, amended: the same list, and the number of listed dates is the days of
\* the month minus its weekend days minus its full-day holidays that do not
\* fall on a weekend.
C20_CountMinusWeekdayFullHolidays ==
    \A month \in Months :
        /\ ListsWorkdays(month)
        /\ Len(get_workdays_in_month(holiday_map, month))
              = DaysIn(month) - Cardinality(WeekendDays(month))
                              - Cardinality(FullHolidayDays(month) \ WeekendDays(month))

\* March 2026 under a table given to the constructor: Thursday 19 a half-day,
\* Saturday 21 and Monday 23 full-day holidays; 21 workdays are listed, the
\* 19th with 4 hours
C20_Witness ==
    /\ loaded # None
    /\ HalfHoliday(78) /\ FullHoliday(80) /\ FullHoliday(82)
    /\ Len(get_workdays_in_month(holiday_map, 3)) = 21
    /\ \E i \in 1..21 : get_workdays_in_month(holiday_map, 3)[i] = << 78, 4 >>

(***************************************************************************)
(* Claims about merged descriptions (SpecAgg)                              *)
(***************************************************************************)
IsSubstringOf(d, acc) ==
    d = << >> \/ \E i \in 1..Len(acc) : \E j \in i..Len(acc) : SubSeq(acc, i, j) = d

\* the descriptions joined with "; " from the left, one that is a substring of
\* what is accumulated so far left out
RECURSIVE Joined(_)
Joined(ds) ==
    IF Len(ds) = 1 THEN ds[1]
    ELSE LET acc == Joined(SubSeq(ds, 1, Len(ds) - 1))
             d == ds[Len(ds)]
         IN  IF IsSubstringOf(d, acc) THEN acc ELSE acc \o << ";", " " >> \o d

\* the descriptions of the entries of X that have the key of entry e, in
\* input order
DescriptionsOfKey(e) ==
    LET same == SelectSeq(X, LAMBDA x : Key(x) = Key(e))
    IN  [ i \in 1..Len(same) |-> same[i].description ]

C22_CanceledSkipped ==
    user_settings.skip_canceled_meetings =>
        \A i \in 1..Len(generated.entries) : ~EventOf(generated.entries[i]).is_canceled

(***************************************************************************)
(* Claims about malformed calendar records (SpecParse)                     *)
(***************************************************************************)
\* a date cell that is no date: missing, or a text in none of the formats
BadDate(row) ==
    \/ row.start_date = None
    \/ row.start_date[1].kind = "str" /\ row.start_date[1].text # tIso

\* a time cell that is not a time of day
BadTime(cell) == cell # None /\ cell[1].text \notin { t1000, t1130 }

Malformed(row) == BadDate(row) \/ BadTime(row.start_time) \/ BadTime(row.end_time)

WellFormedRows == { i \in 1..Len(sheet) : ~Malformed(sheet[i]) }
EventRows == { parse_out.events[i].id : i \in 1..Len(parse_out.events) }
WarnedRows == { parse_out.warnings[i] : i \in 1..Len(parse_out.warnings) }

\* C23: a malformed calendar record of a batch is skipped with a recorded
\* warning and never aborts the batch: every other record is still processed
\* and yields its event, whatever the position of the malformed record.
\* (Canceled meetings are left out of the comparison: the filter may drop them.)
C23_MalformedSkippedWithWarning ==
    /\ \A i \in 1..Len(sheet) :
          Malformed(sheet[i]) => (i \notin EventRows /\ i \in WarnedRows)
    /\ \A i \in WellFormedRows :
          ~StartsWith(sheet[i].subject, pCanceledColon) => i \in EventRows
    /\ \A i \in 1..Len(parse_out.events) : \A j \in 1..Len(parse_out.events) :
          i < j => parse_out.events[i].id < parse_out.events[j].id

(***************************************************************************)
(* Claims about the day summary (SpecMeetings)                             *)
(***************************************************************************)
\* the hours of the stored entries of date d, each entry once
HoursLoggedOn(d) ==
    SumSeq([ i \in 1..Len(entries) |-> IF entries[i].entry_date = d THEN entries[i].hours ELSE 0 ])

\* C24: get_day_summary(date).total_hours is the sum of the hours of the
\* entries recorded for the date, each entry counted once, so is_complete holds
\* exactly when the hours logged for the day reach the morning target plus the
\* afternoon target.
C24_DayTotalCountsOnce ==
    \A d \in Dates :
        LET summary == get_day_summary(entries, meetings, config, d)
        IN  /\ summary.total_hours = HoursLoggedOn(d)
            /\ summary.is_complete
                  <=> HoursLoggedOn(d) >= config.morning_hours_target
                                          + config.afternoon_hours_target

(***************************************************************************)
(* Claims about the totality of match_event (SpecMatch)                    *)
(***************************************************************************)
\* a well-formed confidence: a fraction between 0.0 and 1.0
InUnitInterval(c) ==
    /\ c[2] > 0
    /\ ~RatLess(c, Zero)
    /\ ~RatLess(One, c)

\* no strategy has a hit: no key resolves and no non-empty keyword of an
\* active project is contained in the subject
NoStrategyHit ==
    /\ NoKeyHit
    /\ ContainedPairs = {}

\* C25: match_event returns for every event, the empty subject and the absent
\* or empty description included, a result whose confidence lies in
\* [0.0, 1.0]; with no hit of any strategy (also when the only contained
\* keyword is the empty string) the confidence is 0.0 and the source is none.
C25_TotalWithUnitConfidence ==
    mpc = "matched" =>
        /\ InUnitInterval(result.confidence)
        /\ NoStrategyHit =>
              /\ RatEq(result.confidence, Zero)
              /\ result.match_source = "none"
              /\ result.project_id = None

\* the empty keyword is the only keyword contained in a non-empty subject
OnlyEmptyKeywordContained ==
    LET pairs == KeywordPairs(projects)
    IN  /\ event.subject # << >>
        /\ \E n \in 1..Len(pairs) : pairs[n].keyword = << >>
        /\ ContainedPairs = {}

\* a run that ended without a hit on a non-empty subject whose only contained
\* keyword is the empty string, with an empty description
C25_Witness ==
    /\ mpc = "matched"
    /\ OnlyEmptyKeywordContained
    /\ NoKeyHit
    /\ event.description = Some(<< >>)
    /\ result = NoMatch

(***************************************************************************)
(* Claims about malformed schedule times (SpecConfig)                      *)
(***************************************************************************)
\* HH:MM with a valid hour and minute
WellFormedTime(t) ==
    /\ Len(t) = 5
    /\ t[3] = ":"
    /\ \A i \in { 1, 2, 4, 5 } : IsDigit(t[i])
    /\ 10 * DigitVal(t[1]) + DigitVal(t[2]) <= 23
    /\ 10 * DigitVal(t[4]) + DigitVal(t[5]) <= 59

\* the two time strings a session reads are both well formed
SessionTimesWellFormed(session) ==
    IF session = "morning"
    THEN WellFormedTime(config.workday_start) /\ WellFormedTime(config.lunch_start)
    ELSE WellFormedTime(config.lunch_end) /\ WellFormedTime(config.workday_end)

\* C26: a malformed time string in the schedule config makes get_session_info
\* and suggest_hours fail with a ConfigurationError, and they fail with no
\* other kind of error.
C26_MalformedTimeIsConfigurationError ==
    \A d \in Dates, session \in Sessions :
        LET info == get_session_info(entries, meetings, config, d, session)
        IN  /\ info.kind \in { "ok", "ConfigurationError" }
            /\ ~SessionTimesWellFormed(session) =>
                  /\ info.kind = "ConfigurationError"
                  /\ suggest_hours(entries, meetings, config, d, session) = -1

(***************************************************************************)
(* Claims about the exports (SpecExport, SpecDashboard)                    *)
(***************************************************************************)
\* how many rows of the file were written from the entry of that id
TimesWritten(path, id) ==
    IF export_files[path] = None THEN 0
    ELSE Cardinality({ i \in 1..Len(export_files[path][1]) :
                         export_files[path][1][i].entry_id = id })

\* C27: across any sequence of exports from the popup and from the main
\* window, a stored entry is written to an export file at most once.
C27_WrittenAtMostOnce ==
    \A path \in DOMAIN export_files :
        \A i \in 1..Len(entries) : TimesWritten(path, entries[i].id) <= 1

RecurringJobs(session) == { j \in Jobs : j.trigger = "cron" /\ j.session = session }

\* the pending snooze jobs of a session
SnoozeJobs(session) == { j \in Jobs : j.trigger = "date" /\ j.session = session }

PopupEnabled(cfg, session) ==
    IF session = "morning" THEN cfg.morning_popup_enabled ELSE cfg.afternoon_popup_enabled

\* the popup time of a session as the minute of the day, read off the HH:MM text
PopupMinute(cfg, session) ==
    LET t == IF session = "morning" THEN cfg.morning_popup_time ELSE cfg.afternoon_popup_time
    IN  60 * (10 * DigitVal(t[1]) + DigitVal(t[2])) + 10 * DigitVal(t[4]) + DigitVal(t[5])

\* C29: after start(config), and after reschedule(config) on a running
\* scheduler, a session has a recurring popup job exactly when its popup is
\* enabled in that config, and the job runs at that config's time (no job of
\* an earlier config survives); after stop() no job remains and is_running is
\* false.
C29_JobsFollowConfig ==
    /\ (lastOp \in { "start", "save_settings" } /\ is_running) =>
          /\ _config = Some(config)
          /\ \A session \in Sessions :
                /\ RecurringJobs(session) # {} <=> PopupEnabled(config, session)
                /\ \A j \in RecurringJobs(session) :
                      60 * j.hour + j.minute = PopupMinute(config, session)
    /\ lastOp = "stop" => (Jobs = {} /\ ~is_running)

\* the settings were saved on a running scheduler with the morning popup
\* switched off and the afternoon popup on
C29_Witness ==
    /\ lastOp = "save_settings"
    /\ is_running
    /\ ~config.morning_popup_enabled
    /\ RecurringJobs("morning") = {}
    /\ Cardinality(RecurringJobs("afternoon")) = 1

\* the step is a snooze of that session
SnoozeStep(session) ==
    lastOp' = (IF session = "morning" THEN "snooze_morning" ELSE "snooze_afternoon")

\* the step is one in which the pending snooze of the session runs
SnoozeFires(session) ==
    /\ lastOp' = "tick"
    /\ \E j \in SnoozeJobs(session) : j.run_date <= MinuteAt(sched_clock')

\* C30: after a snooze of a session on a running scheduler there is exactly
\* one pending snooze job of that session, and a pending snooze stays pending
\* until it fires, also across a reschedule caused by saving the settings and
\* across a snooze of the other session.
C30_SnoozeStaysPending ==
    [][ \A session \in Sessions :
          /\ (is_running /\ SnoozeStep(session)) =>
                Cardinality(SnoozeJobs(session)') = 1
          /\ (/\ is_running
              /\ SnoozeJobs(session) # {}
              /\ lastOp' \notin { "start", "stop" }
              /\ ~SnoozeFires(session)) =>
                SnoozeJobs(session)' # {} ]_vars

=============================================================================
